---- MODULE Spec2Model ----
(***************************************************************************)
(* A model of the fdb storage engine: the page file, the pager (cache,     *)
(* deferred-flush queue, allocator), heap-page sequences with their        *)
(* record envelopes, the query operators and the Db facade.                *)
(*                                                                         *)
(* Pages keep their record region as a sequence of bytes; every integer    *)
(* is laid out big-endian with the width the code writes.  The model is    *)
(* of a debug build: arithmetic overflow and debug assertions panic.       *)
(***************************************************************************)
EXTENDS Integers, Sequences, FiniteSets, Bags, TLC

\* ------------------------------------------------------------------------
\* Bounds of the model
\* ------------------------------------------------------------------------
\* Number of Db.execute calls with an Insert, Delete, Update or Create
\* explored per file.
MaxOps == 4
\* Number of Db.execute calls with a Select explored per file.
MaxSelects == 1
\* Number of sessions (Db.open calls) explored per file.
MaxSessions == 2
\* Number of Object::find calls by the caller explored per file.
MaxFinds == 1
\* Number of Db.execute calls of any kind in the runs that explore every
\* kind of query.
MaxExecs == 3
\* Number of try_update calls explored per record.
MaxCalls == 3
\* Number of Pager::get and Pager::alloc calls explored per task.
MaxTaskOps == 3
\* Number of evictions from the pager's cache explored per pager.
MaxEvicts == 1

\* ------------------------------------------------------------------------
\* Program constants
\* ------------------------------------------------------------------------
HEADER_SIZE == 100
DEFAULT_PAGE_SIZE == 4096
FIRST_SCHEMA_PAGE_ID == 2
NoPage == 0

\* The page sizes a caller passes to Db::open_with_page_size.
PageSizes == {64, 112, DEFAULT_PAGE_SIZE}

\* The page size of the sessions that run table queries.
TableSizes == {112}

\* ------------------------------------------------------------------------
\* Bytes
\* ------------------------------------------------------------------------
Zeros(n) == [i \in 1..n |-> 0]

U16(n) == <<(n \div 256) % 256, n % 256>>

U32(n) == <<(n \div 16777216) % 256, (n \div 65536) % 256, (n \div 256) % 256, n % 256>>

U64(n) == <<0, 0, 0, 0>> \o U32(n)

\* Buff::read of a u16 / u32 at the 0-based offset off.
RdU16(b, off) == b[off + 1] * 256 + b[off + 2]

RdU32(b, off) == ((b[off + 1] * 256 + b[off + 2]) * 256 + b[off + 3]) * 256 + b[off + 4]

Slice(b, off, n) == [i \in 1..n |-> b[off + i]]

\* Buff::write_slice of w at offset off of b (the caller checks capacity).
Splice(b, off, w) ==
    [i \in 1..Len(b) |-> IF i > off /\ i <= off + Len(w) THEN w[i - off] ELSE b[i]]

\* ------------------------------------------------------------------------
\* Strings: the names the model uses, as UTF-8 bytes
\* ------------------------------------------------------------------------
\* "a60" and "b60" stand for the names made of 60 letters a and of 60
\* letters b.
KnownStrings == {"id", "text", "bool", "test_table", "ix", "a60", "b60"}

StrBytes(s) ==
    CASE s = "id" -> <<105, 100>>
      [] s = "text" -> <<116, 101, 120, 116>>
      [] s = "bool" -> <<98, 111, 111, 108>>
      [] s = "test_table" -> <<116, 101, 115, 116, 95, 116, 97, 98, 108, 101>>
      [] s = "ix" -> <<105, 120>>
      [] s = "a60" -> [k \in 1..60 |-> 97]
      [] s = "b60" -> [k \in 1..60 |-> 98]

BytesStr(b) ==
    IF \E s \in KnownStrings : StrBytes(s) = b
    THEN CHOOSE s \in KnownStrings : StrBytes(s) = b
    ELSE "?"

\* ------------------------------------------------------------------------
\* Pages
\* ------------------------------------------------------------------------
NoSeq == [present |-> FALSE, last_page_id |-> 0, page_count |-> 0, record_count |-> 0]

\* FirstPage::new(page_size)
FirstPageNew(page_size) ==
    [ty |-> "First", page_size |-> page_size, page_count |-> 1]

\* Size for Option<SeqHeader>
SeqHeaderSize(seq) == 1 + (IF seq.present THEN 4 + 4 + 8 ELSE 1)

\* Size for Header (heap page)
HeapHeaderSize(seq) == 1 + 4 + SeqHeaderSize(seq) + 4 + 2 + 2

\* HeapPage::new_seq_first
new_seq_first(page_size, page_id) ==
    LET seq == [present |-> TRUE, last_page_id |-> page_id, page_count |-> 1,
                record_count |-> 0]
    IN [ty |-> "Heap", id |-> page_id, seq |-> seq, next_page_id |-> NoPage,
        record_count |-> 0, free_offset |-> 0,
        bytes |-> Zeros(page_size - HeapHeaderSize(seq))]

\* HeapPage::new_seq_node
new_seq_node(page_size, page_id) ==
    [ty |-> "Heap", id |-> page_id, seq |-> NoSeq, next_page_id |-> page_id,
     record_count |-> 0, free_offset |-> 0,
     bytes |-> Zeros(page_size - HeapHeaderSize(NoSeq))]

\* HeapPage::can_accommodate as it would be if every record fitted.
AlwaysAccommodates(page, n) == TRUE

\* HeapPage::can_accommodate
can_accommodate(page, n) == Len(page.bytes) >= page.free_offset + n

\* "fdb format"
Magic == <<102, 100, 98, 32, 102, 111, 114, 109, 97, 116>>

\* The two bytes that end the main header (br"\0").
MagicEnd == <<92, 48>>

\* Serialize for Option<PageId>: zero encodes None.
OptPageIdBytes(id) == U32(id)

\* The fields of the main header between the two signatures: version,
\* page size, page count, first free-list page id, first schema page id.
MainHeaderFieldBytes(page) ==
    <<1>> \o U16(page.page_size) \o U32(page.page_count)
    \o OptPageIdBytes(NoPage) \o OptPageIdBytes(FIRST_SCHEMA_PAGE_ID)

\* The fields of the main header read back from a header page's buffer.
MainHeaderFields(buf) ==
    [ty |-> "First", page_size |-> RdU16(buf, 11), page_count |-> RdU32(buf, 13)]

\* MainHeader::serialize followed by the page's zero padding: signature,
\* fields, zeros up to the closing signature.
FirstPageBytes(page, page_size) ==
    LET head == Magic \o MainHeaderFieldBytes(page)
    IN head \o Zeros(HEADER_SIZE - 2 - Len(head)) \o MagicEnd
       \o Zeros(page_size - HEADER_SIZE)

\* Serialize for Option<SeqHeader>
SeqHeaderBytes(seq) ==
    IF seq.present
    THEN <<255>> \o U32(seq.last_page_id) \o U32(seq.page_count) \o U64(seq.record_count)
    ELSE <<170>>

\* Header::serialize (heap page)
HeapHeaderBytes(page) ==
    <<1>> \o U32(page.id) \o SeqHeaderBytes(page.seq) \o OptPageIdBytes(page.next_page_id)
    \o U16(page.record_count) \o U16(page.free_offset)

\* Whether Page::serialize fits the page in a buffer of page_size bytes
\* (Buff panics otherwise).
SerializeFits(page, page_size) ==
    IF page.ty = "First" THEN page_size >= HEADER_SIZE
    ELSE Len(HeapHeaderBytes(page)) + Len(page.bytes) <= page_size

\* Page::serialize into a buffer of page_size bytes: the header, the record
\* region, zeros to the end of the buffer.
Serialize(page, page_size) ==
    IF page.ty = "First" THEN FirstPageBytes(page, page_size)
    ELSE LET head == HeapHeaderBytes(page)
         IN head \o page.bytes \o Zeros(page_size - Len(head) - Len(page.bytes))

\* Page::deserialize of a buffer: the type tag selects the variant; a heap
\* page's record region is what remains of the buffer after its header.
\* st is "ok", "err" (with the error kind) or "panic".
Deserialize(buf) ==
    LET n == Len(buf)
        tag == buf[1]
    IN IF tag = 102 THEN
           IF n < HEADER_SIZE THEN [st |-> "panic"]
           ELSE IF Slice(buf, 0, 10) # Magic THEN [st |-> "err", err |-> "CorruptedHeader"]
           ELSE IF Slice(buf, HEADER_SIZE - 2, 2) # MagicEnd
                THEN [st |-> "err", err |-> "CorruptedHeader"]
           ELSE [st |-> "ok", page |-> MainHeaderFields(buf)]
       ELSE IF tag = 1 THEN
           IF n < 6 THEN [st |-> "panic"]
           ELSE IF buf[6] \notin {170, 255} THEN [st |-> "err", err |-> "CorruptedTypeTag"]
           ELSE LET present == buf[6] = 255
                    o == IF present THEN 22 ELSE 6
                IN IF n < o + 8 \/ RdU32(buf, 1) = 0 \/ (present /\ RdU32(buf, 6) = 0)
                   THEN [st |-> "panic"]
                   ELSE [st |-> "ok",
                         page |-> [ty |-> "Heap", id |-> RdU32(buf, 1),
                                   seq |-> IF present
                                           THEN [present |-> TRUE,
                                                 last_page_id |-> RdU32(buf, 6),
                                                 page_count |-> RdU32(buf, 10),
                                                 record_count |-> RdU32(buf, 18)]
                                           ELSE NoSeq,
                                   next_page_id |-> RdU32(buf, o),
                                   record_count |-> RdU16(buf, o + 4),
                                   free_offset |-> RdU16(buf, o + 6),
                                   bytes |-> Slice(buf, o + 8, n - o - 8)]]
       ELSE [st |-> "err", err |-> "CorruptedTypeTag"]

\* ------------------------------------------------------------------------
\* Disk manager: the file is a sequence of bytes
\* ------------------------------------------------------------------------
\* PageId::offset
PageOffset(page_id, page_size) == (page_id - 1) * page_size

\* DiskManager::read_page
read_page(f, page_id, page_size) ==
    LET offset == PageOffset(page_id, page_size)
    IN IF offset >= Len(f) THEN [st |-> "err", err |-> "PageOutOfBounds"]
       ELSE IF offset + page_size > Len(f) THEN [st |-> "err", err |-> "ReadIncompletePage"]
       ELSE [st |-> "ok", buf |-> Slice(f, offset, page_size)]

\* DiskManager::write_page: seek to the page's offset and write the buffer;
\* a seek past the end leaves a hole of zeros.
write_page(f, page_id, buf) ==
    LET offset == PageOffset(page_id, Len(buf))
        base == IF Len(f) < offset THEN f \o Zeros(offset - Len(f)) ELSE f
        end == offset + Len(buf)
    IN SubSeq(base, 1, offset) \o buf \o
       (IF Len(base) > end THEN SubSeq(base, end + 1, Len(base)) ELSE <<>>)

\* ------------------------------------------------------------------------
\* Pager.  A store s is [file, cache, queue]: the file's bytes, the cache
\* (page id -> typed page, for the cached ids) and the notification queue.
\* Every operation returns [st, s, ...]; on a panic s holds what had
\* reached the file.
\* ------------------------------------------------------------------------
EmptyCache == [id \in {} |-> 0]

CachePut(cache, id, page) ==
    [i \in DOMAIN cache \cup {id} |-> IF i = id THEN page ELSE cache[i]]

\* Pager::get with Pager::disk_read_page as the cache loader; a failed load
\* installs nothing.
PagerGet(s, page_id, page_size) ==
    LET Loaded(d) ==
            IF d.st = "ok"
            THEN [st |-> "ok", s |-> [s EXCEPT !.cache = CachePut(@, page_id, d.page)],
                  page |-> d.page]
            ELSE IF d.st = "err" THEN [st |-> "err", err |-> d.err, s |-> s]
            ELSE [st |-> "panic", s |-> s]
        Read(r) ==
            IF r.st # "ok" THEN [st |-> "err", err |-> r.err, s |-> s]
            ELSE Loaded(Deserialize(r.buf))
    IN IF page_id \in DOMAIN s.cache THEN [st |-> "ok", s |-> s, page |-> s.cache[page_id]]
       ELSE Read(read_page(s.file, page_id, page_size))

\* PagerWriteGuard::flush / PagerReadGuard::release: post a notification.
Notify(s, page_id, kind) == [s EXCEPT !.queue = Append(@, <<page_id, kind>>)]

\* A mutation through a write view: the cached page is replaced.
SetPage(s, page) == [s EXCEPT !.cache = CachePut(@, page.id, page)]

\* Pager::flush_page
flush_page(s, page_id, page, page_size) ==
    IF ~SerializeFits(page, page_size) THEN [st |-> "panic", s |-> s]
    ELSE [st |-> "ok", s |-> [s EXCEPT !.file = write_page(@, page_id, Serialize(page, page_size))]]

\* Pager::flush_page_and_build_guard (Cache::insert_new panics on a present key)
flush_page_and_build_guard(s, page_id, page, page_size) ==
    LET Flushed(w) ==
            IF w.st # "ok" THEN w
            ELSE IF page_id \in DOMAIN w.s.cache THEN [st |-> "panic", s |-> w.s]
            ELSE [st |-> "ok", s |-> [w.s EXCEPT !.cache = CachePut(@, page_id, page)]]
    IN Flushed(flush_page(s, page_id, page, page_size))

\* Pager::alloc: bump the header's page count under its write latch, write
\* the new page to the file, schedule the header's flush, install the new
\* page in the cache.  create is "first" or "node".
Alloc(s, create, page_size) ==
    LET Installed(s2, page_id, init) ==
            IF page_id \in DOMAIN s2.cache THEN [st |-> "panic", s |-> s2]
            ELSE [st |-> "ok", s |-> [s2 EXCEPT !.cache = CachePut(@, page_id, init)],
                  page |-> init]
        Written(w, page_id, init) ==
            IF w.st # "ok" THEN w ELSE Installed(Notify(w.s, 1, "Write"), page_id, init)
        Created(s1, page_id, init) ==
            Written(flush_page(s1, page_id, init, page_size), page_id, init)
        Bumped(g, first) ==
            Created([g.s EXCEPT !.cache = CachePut(@, 1, first)], first.page_count,
                    IF create = "first" THEN new_seq_first(page_size, first.page_count)
                    ELSE new_seq_node(page_size, first.page_count))
        Got(g) ==
            IF g.st # "ok" THEN g
            ELSE IF g.page.ty # "First" THEN [st |-> "panic", s |-> g.s]
            ELSE Bumped(g, [g.page EXCEPT !.page_count = @ + 1])
    IN Got(PagerGet(s, 1, page_size))

\* Pager::flush_all as it would be if it drained the queue and wrote
\* nothing.
FlushAllWritesNothing(s, page_size) == [st |-> "ok", s |-> [s EXCEPT !.queue = <<>>]]

\* Pager::flush_all: drain the queue; a write notification serializes the
\* cached page and writes it to the file.
RECURSIVE FlushAll(_, _)
FlushAll(s, page_size) ==
    LET page_id == Head(s.queue)[1]
        ref_type == Head(s.queue)[2]
        rest == [s EXCEPT !.queue = Tail(@)]
        Flushed(w) == IF w.st # "ok" THEN w ELSE FlushAll(w.s, page_size)
    IN IF s.queue = <<>> THEN [st |-> "ok", s |-> s]
       ELSE IF page_id \notin DOMAIN s.cache THEN [st |-> "panic", s |-> rest]
       ELSE IF ref_type = "Write"
       THEN Flushed(flush_page(rest, page_id, s.cache[page_id], page_size))
       ELSE FlushAll(rest, page_size)

\* ------------------------------------------------------------------------
\* Bootstrap
\* ------------------------------------------------------------------------
\* boot_first_page as it would be if a new file got its header page only,
\* without the catalog's first page.
boot_first_page_header_only(f, page_size) ==
    LET Booted(b) ==
            IF b.st # "ok" THEN [r |-> "panic", s |-> b.s] ELSE [r |-> "new", s |-> b.s]
        Got(s0, g) ==
            IF g.st = "ok" THEN
                IF g.page.ty # "First" THEN [r |-> "panic", s |-> g.s]
                ELSE IF g.page.page_size # page_size THEN [r |-> "ExecError", s |-> g.s]
                ELSE [r |-> "existing", s |-> g.s]
            ELSE IF g.st = "err" /\ g.err = "PageOutOfBounds" THEN
                Booted(flush_page_and_build_guard(s0, 1, FirstPageNew(page_size), page_size))
            ELSE IF g.st = "err" /\ g.err = "ReadIncompletePage" THEN [r |-> "panic", s |-> g.s]
            ELSE IF g.st = "err" THEN [r |-> g.err, s |-> g.s]
            ELSE [r |-> "panic", s |-> g.s]
        Over(s0) == Got(s0, PagerGet(s0, 1, page_size))
    IN Over([file |-> f, cache |-> EmptyCache, queue |-> <<>>])

\* boot_first_page on a fresh pager over file f.  r is "new", "existing",
\* the error kind, or "panic"; reads is the number of read views it took
\* (guard.read() at bootstrap.rs:21).
boot_first_page(f, page_size) ==
    LET Allocated(a) ==
            IF a.st = "ok" THEN [r |-> "new", s |-> a.s, reads |-> 0]
            ELSE IF a.st = "err" THEN [r |-> a.err, s |-> a.s, reads |-> 0]
            ELSE [r |-> "panic", s |-> a.s, reads |-> 0]
        Booted(b) ==
            IF b.st # "ok" THEN [r |-> "panic", s |-> b.s, reads |-> 0]
            ELSE Allocated(Alloc(b.s, "first", page_size))
        Got(s0, g) ==
            IF g.st = "ok" THEN
                IF g.page.ty # "First" THEN [r |-> "panic", s |-> g.s, reads |-> 1]
                ELSE IF g.page.page_size # page_size
                THEN [r |-> "ExecError", s |-> g.s, reads |-> 1]
                ELSE [r |-> "existing", s |-> g.s, reads |-> 1]
            ELSE IF g.st = "err" /\ g.err = "PageOutOfBounds" THEN
                Booted(flush_page_and_build_guard(s0, 1, FirstPageNew(page_size), page_size))
            ELSE IF g.st = "err" /\ g.err = "ReadIncompletePage"
            THEN [r |-> "panic", s |-> g.s, reads |-> 0]
            ELSE IF g.st = "err" THEN [r |-> g.err, s |-> g.s, reads |-> 0]
            ELSE [r |-> "panic", s |-> g.s, reads |-> 0]
        Over(s0) == Got(s0, PagerGet(s0, 1, page_size))
    IN Over([file |-> f, cache |-> EmptyCache, queue |-> <<>>])

\* ------------------------------------------------------------------------
\* Values, schema, objects
\* ------------------------------------------------------------------------
\* A Value is [ty, v]; v is a sequence: <<n>> for Int, <<0>>/<<1>> for Bool,
\* the UTF-8 bytes for Text.
IntV(n) == [ty |-> "Int", v |-> <<n>>]
TextV(b) == [ty |-> "Text", v |-> b]
BoolV(n) == [ty |-> "Bool", v |-> <<n>>]

\* get_test_schema
TestSchema == <<[ty |-> "Int", name |-> "id"],
                [ty |-> "Text", name |-> "text"],
                [ty |-> "Bool", name |-> "bool"]>>

\* Size for Value
ValueSize(val) ==
    CASE val.ty = "Int" -> 4
      [] val.ty = "Bool" -> 1
      [] val.ty = "Text" -> 2 + Len(val.v)

\* Value::serialize
ValueBytes(val) ==
    CASE val.ty = "Int" -> U32(val.v[1])
      [] val.ty = "Bool" -> val.v
      [] val.ty = "Text" -> U16(Len(val.v)) \o val.v

\* Value::default_for_type
default_for_type(ty) ==
    CASE ty = "Int" -> IntV(0)
      [] ty = "Bool" -> BoolV(0)
      [] ty = "Text" -> TextV(<<>>)

\* Value::deserialize at offset off of b: [st, val, n] with n the bytes read.
\* Reading past the buffer or an invalid bool byte panics.
DecodeValue(b, off, ty) ==
    CASE ty = "Int" ->
           IF off + 4 > Len(b) THEN [st |-> "panic"]
           ELSE [st |-> "ok", val |-> IntV(RdU32(b, off)), n |-> 4]
      [] ty = "Bool" ->
           IF off + 1 > Len(b) \/ b[off + 1] \notin {0, 1} THEN [st |-> "panic"]
           ELSE [st |-> "ok", val |-> BoolV(b[off + 1]), n |-> 1]
      [] ty = "Text" ->
           IF off + 2 > Len(b) THEN [st |-> "panic"]
           ELSE LET len == RdU16(b, off)
                IN IF off + 2 + len > Len(b) THEN [st |-> "panic"]
                   ELSE LET str == Slice(b, off + 2, len)
                        IN IF \E k \in 1..len : str[k] >= 128
                           THEN [st |-> "err", err |-> "CorruptedUtf8"]
                           ELSE [st |-> "ok", val |-> TextV(str), n |-> 2 + len]

\* SchematizedValues::validate_and_apply_defaults over the columns from
\* index k on: [st, values, size].
RECURSIVE ValidateFrom(_, _, _, _)
ValidateFrom(values, schema, k, size) ==
    IF k > Len(schema) THEN [st |-> "ok", values |-> values, size |-> size]
    ELSE LET column == schema[k]
         IN IF column.name \in DOMAIN values
            THEN IF column.ty # values[column.name].ty
                 THEN [st |-> "err", err |-> "ExecError"]
                 ELSE ValidateFrom(values, schema, k + 1,
                                   size + ValueSize(values[column.name]))
            ELSE LET value == default_for_type(column.ty)
                 IN ValidateFrom([n \in DOMAIN values \cup {column.name} |->
                                     IF n = column.name THEN value ELSE values[n]],
                                 schema, k + 1, size + ValueSize(value))

\* Values::try_into_schematized / Values::schematize
validate_and_apply_defaults(values, schema) == ValidateFrom(values, schema, 1, 0)

\* SchematizedValues::serialize: the values in the schema's column order.
RECURSIVE ValuesBytesFrom(_, _, _)
ValuesBytesFrom(values, schema, k) ==
    IF k > Len(schema) THEN <<>>
    ELSE ValueBytes(values[schema[k].name]) \o ValuesBytesFrom(values, schema, k + 1)

ValuesBytes(values, schema) == ValuesBytesFrom(values, schema, 1)

\* SchematizedValues::deserialize: one value per column, in order.
RECURSIVE DecodeValuesFrom(_, _, _, _, _, _)
DecodeValuesFrom(b, off, schema, k, values, size) ==
    LET Decoded(d) ==
            IF d.st # "ok" THEN d
            ELSE DecodeValuesFrom(b, off + d.n, schema, k + 1,
                                  [n \in DOMAIN values \cup {schema[k].name} |->
                                      IF n = schema[k].name THEN d.val ELSE values[n]],
                                  size + d.n)
    IN IF k > Len(schema) THEN [st |-> "ok", data |-> values, size |-> size]
       ELSE Decoded(DecodeValue(b, off, schema[k].ty))

DecodeValues(b, off, schema) == DecodeValuesFrom(b, off, schema, 1, [n \in {} |-> 0], 0)

\* TypeId::serialize for the primitive types of the model.
TypeTag(ty) ==
    CASE ty = "Bool" -> 0
      [] ty = "Int" -> 3
      [] ty = "Text" -> 6

\* Column::serialize
ColumnBytes(column) ==
    <<TypeTag(column.ty)>> \o U16(Len(StrBytes(column.name))) \o StrBytes(column.name)

\* TableSchema::serialize (a VarList of columns)
RECURSIVE ColumnsBytesFrom(_, _)
ColumnsBytesFrom(schema, k) ==
    IF k > Len(schema) THEN <<>>
    ELSE ColumnBytes(schema[k]) \o ColumnsBytesFrom(schema, k + 1)

SchemaBytes(schema) == U16(Len(schema)) \o ColumnsBytesFrom(schema, 1)

\* An Object is [ty, schema, page_id, name]; ty is "Table" or "Index" (an
\* index carries the empty schema, which is not serialized).
\* Object::serialize
ObjectBytes(object) ==
    (IF object.ty = "Table" THEN <<10>> \o SchemaBytes(object.schema) ELSE <<11>>)
    \o U32(object.page_id)
    \o U16(Len(StrBytes(object.name))) \o StrBytes(object.name)

\* VarString::deserialize: [st, str, n]
DecodeString(b, off) ==
    IF off + 2 > Len(b) THEN [st |-> "panic"]
    ELSE LET len == RdU16(b, off)
         IN IF off + 2 + len > Len(b) THEN [st |-> "panic"]
            ELSE [st |-> "ok", str |-> BytesStr(Slice(b, off + 2, len)), n |-> 2 + len]

\* VarList<Column>::deserialize from the column at off on, rem columns left.
RECURSIVE DecodeColumns(_, _, _, _, _)
DecodeColumns(b, off, rem, columns, n) ==
    LET Named(tag, name) ==
            IF tag \notin {0, 3, 6} THEN [st |-> "err", err |-> "CorruptedTypeTag"]
            ELSE IF name.st # "ok" THEN name
            ELSE DecodeColumns(b, off + 1 + name.n, rem - 1,
                               Append(columns,
                                      [ty |-> CASE tag = 0 -> "Bool" [] tag = 3 -> "Int"
                                                [] tag = 6 -> "Text",
                                       name |-> name.str]),
                               n + 1 + name.n)
    IN IF rem = 0 THEN [st |-> "ok", schema |-> columns, n |-> n]
       ELSE IF off + 1 > Len(b) THEN [st |-> "panic"]
       ELSE Named(b[off + 1], DecodeString(b, off + 1))

\* Object::deserialize: [st, data, size]
DecodeObject(b, off) ==
    LET Named(tag, sch, o1, name) ==
            IF name.st # "ok" THEN name
            ELSE [st |-> "ok",
                  data |-> [ty |-> IF tag = 10 THEN "Table" ELSE "Index",
                            schema |-> sch.schema,
                            page_id |-> RdU32(b, o1),
                            name |-> name.str],
                  size |-> 1 + sch.n + 4 + name.n]
        At(tag, sch, o1) ==
            IF o1 + 4 > Len(b) \/ RdU32(b, o1) = 0 THEN [st |-> "panic"]
            ELSE Named(tag, sch, o1, DecodeString(b, o1 + 4))
        Schema(tag, sch) ==
            IF sch.st # "ok" THEN sch ELSE At(tag, sch, off + 1 + sch.n)
        Columns(c) == IF c.st = "ok" THEN [c EXCEPT !.n = @ + 2] ELSE c
        Tagged(tag) ==
            IF tag \notin {10, 11} THEN [st |-> "err", err |-> "CorruptedObjectTypeTag"]
            ELSE IF tag = 11 THEN Schema(tag, [st |-> "ok", schema |-> <<>>, n |-> 0])
            ELSE IF off + 3 > Len(b) THEN [st |-> "panic"]
            ELSE Schema(tag, Columns(DecodeColumns(b, off + 3, RdU16(b, off + 1), <<>>, 0)))
    IN IF off + 1 > Len(b) THEN [st |-> "panic"] ELSE Tagged(b[off + 1])

\* Size for Column / TableSchema / Object
RECURSIVE ColumnsSizeFrom(_, _)
ColumnsSizeFrom(schema, k) ==
    IF k > Len(schema) THEN 0
    ELSE 1 + 2 + Len(StrBytes(schema[k].name)) + ColumnsSizeFrom(schema, k + 1)

ObjectSize(object) ==
    1 + (IF object.ty = "Table" THEN 2 + ColumnsSizeFrom(object.schema, 1) ELSE 0)
    + 4 + 2 + Len(StrBytes(object.name))

\* ------------------------------------------------------------------------
\* Record envelope.  A record is [page_id, offset, total_size, is_deleted,
\* data, dsize, pad_size]; dsize is data.size().  kind is "row" (a table's
\* schematized values) or "obj" (a catalog object).
\* ------------------------------------------------------------------------
\* Size for SimpleRecord
RecordSize(record) == 2 + 1 + record.dsize + record.pad_size

\* SimpleRecord::new
RecordNew(page_id, offset, data, dsize) ==
    [page_id |-> page_id, offset |-> offset, total_size |-> (2 + 1 + dsize) % 65536,
     is_deleted |-> FALSE, data |-> data, dsize |-> dsize, pad_size |-> 0]

\* SimpleRecord::set_deleted
set_deleted(record) == [record EXCEPT !.is_deleted = TRUE]

\* SimpleRecord::available_data_size
available_data_size(record) == RecordSize(record) - 2 - 1

\* SimpleRecord::try_update: [ok, record]
try_update(record, new_data, new_size) ==
    LET total_size == available_data_size(record)
    IN IF new_size < total_size
       THEN [ok |-> TRUE,
             record |-> [record EXCEPT !.pad_size = (@ + (total_size - new_size)) % 65536,
                                       !.data = new_data, !.dsize = new_size]]
       ELSE IF new_size = total_size
       THEN [ok |-> TRUE,
             record |-> [record EXCEPT !.pad_size = 0, !.data = new_data, !.dsize = new_size]]
       ELSE [ok |-> FALSE, record |-> record]

DataBytes(kind, data, schema) ==
    IF kind = "row" THEN ValuesBytes(data, schema) ELSE ObjectBytes(data)

\* SimpleRecord::serialize
RecordBytes(record, kind, schema) ==
    U16(record.total_size) \o <<IF record.is_deleted THEN 1 ELSE 0>>
    \o DataBytes(kind, record.data, schema) \o Zeros(record.pad_size)

\* HeapPage::read_at with SimpleRecord::deserialize: [st, record].  The
\* padding is total_size - 3 - data.size() in u16 arithmetic, and the
\* padding bytes are read back and asserted to be zero.
DecodeRecord(page, offset, kind, schema) ==
    LET b == page.bytes
        Padded(total_size, d, pad_size, end) ==
            IF pad_size < 0 \/ end + pad_size > Len(b)
               \/ \E k \in 1..pad_size : b[end + k] # 0
            THEN [st |-> "panic"]
            ELSE [st |-> "ok",
                  record |-> [page_id |-> page.id, offset |-> offset,
                              total_size |-> total_size,
                              is_deleted |-> b[offset + 3] = 1,
                              data |-> d.data, dsize |-> d.size,
                              pad_size |-> pad_size]]
        Decoded(total_size, d) ==
            IF d.st # "ok" THEN d
            ELSE Padded(total_size, d, total_size - 2 - 1 - d.size, offset + 3 + d.size)
    IN IF offset > Len(b) \/ offset + 3 > Len(b) \/ b[offset + 3] \notin {0, 1}
       THEN [st |-> "panic"]
       ELSE IF kind = "row"
       THEN Decoded(RdU16(b, offset), DecodeValues(b, offset + 3, schema))
       ELSE Decoded(RdU16(b, offset), DecodeObject(b, offset + 3))

\* HeapPage::write_at as it would be if it moved free_offset past what it
\* wrote, as HeapPage::write does.
PageWriteAtMovesFree(page, offset, w) ==
    IF offset > Len(page.bytes) \/ offset + Len(w) > Len(page.bytes) THEN [st |-> "panic"]
    ELSE [st |-> "ok", page |-> [page EXCEPT !.bytes = Splice(@, offset, w),
                                             !.free_offset = (offset + Len(w)) % 65536]]

\* HeapPage::write_at: the closure writes w at offset; Buff panics past the
\* end of the region.
PageWriteAt(page, offset, w) ==
    IF offset > Len(page.bytes) \/ offset + Len(w) > Len(page.bytes) THEN [st |-> "panic"]
    ELSE [st |-> "ok", page |-> [page EXCEPT !.bytes = Splice(@, offset, w)]]

\* HeapPage::write: write at free_offset and advance it by the bytes written.
PageWrite(page, w) ==
    LET Written(r) ==
            IF r.st # "ok" THEN r
            ELSE [st |-> "ok", page |-> [r.page EXCEPT !.free_offset = (@ + Len(w)) % 65536]]
    IN Written(PageWriteAt(page, page.free_offset, w))

\* ------------------------------------------------------------------------
\* Insert into a heap sequence (table Insert and object Create)
\* ------------------------------------------------------------------------
\* write(pager, page, ...): append the record to page, or to a newly
\* allocated sequence node.  [st, s, new]: new is the allocated page's id or
\* NoPage.
SeqWrite(s, page, kind, data, dsize, schema, page_size) ==
    LET Written(s1, r, new) ==
            IF r.st # "ok" THEN [st |-> "panic", s |-> s1]
            ELSE IF new = NoPage
            THEN [st |-> "ok", new |-> NoPage,
                  s |-> SetPage(s1, [r.page EXCEPT !.record_count = @ + 1])]
            ELSE [st |-> "ok", new |-> new,
                  s |-> Notify(SetPage(s1, [r.page EXCEPT !.record_count = @ + 1]),
                               new, "Write")]
        Allocated(a, size, w) ==
            IF a.st # "ok" THEN a
            ELSE IF ~can_accommodate(a.page, size)
            THEN [st |-> "err", err |-> "ExecError", s |-> Notify(a.s, a.page.id, "Write")]
            ELSE Written(a.s, PageWrite(a.page, w), a.page.id)
        Sized(size, w) ==
            IF can_accommodate(page, size) THEN Written(s, PageWrite(page, w), NoPage)
            ELSE Allocated(Alloc(s, "node", page_size), size, w)
        Built(record) == Sized(RecordSize(record), RecordBytes(record, kind, schema))
    IN Built(RecordNew(page.id, page.free_offset, data, dsize))

\* The sequence-header update of Insert::next / Create::next on the root
\* page after the record was written; new is the id of a newly allocated
\* page or NoPage.
LinkRoot(page, new) ==
    IF new = NoPage
    THEN [page EXCEPT !.seq.record_count = @ + 1]
    ELSE [page EXCEPT !.seq.record_count = @ + 1,
                      !.next_page_id = new,
                      !.seq.last_page_id = new,
                      !.seq.page_count = @ + 1]

\* Insert::next / Create::next under the root's write latch: write into the
\* last page of the sequence, update the root, release the latches.
\* [st, s]
SeqInsertLatched(s, root_id, kind, data, dsize, schema, page_size) ==
    LET Linked(s1, new) ==
            [st |-> "ok",
             s |-> Notify(SetPage(s1, LinkRoot(s1.cache[root_id], new)), root_id, "Write")]
        Written(last_page_id, w) ==
            IF w.st # "ok" THEN w
            ELSE Linked(IF last_page_id # root_id THEN Notify(w.s, last_page_id, "Write")
                        ELSE w.s,
                        w.new)
        Last(last_page_id, lg) ==
            IF lg.st # "ok" THEN lg
            ELSE IF lg.page.ty # "Heap" THEN [st |-> "panic", s |-> lg.s]
            ELSE Written(last_page_id,
                         SeqWrite(lg.s, lg.page, kind, data, dsize, schema, page_size))
        Got(g) ==
            IF g.st # "ok" THEN g
            ELSE IF g.page.ty # "Heap" \/ ~g.page.seq.present THEN [st |-> "panic", s |-> g.s]
            ELSE Last(g.page.seq.last_page_id,
                      IF g.page.seq.last_page_id # root_id
                      THEN PagerGet(g.s, g.page.seq.last_page_id, page_size)
                      ELSE g)
    IN Got(PagerGet(s, root_id, page_size))

\* Insert::next / Create::next from the root's write latch on, with the
\* flush_all that ends it.  [st, s]
SeqInsert(s, root_id, kind, data, dsize, schema, page_size) ==
    LET Flushed(r) == IF r.st # "ok" THEN r ELSE FlushAll(r.s, page_size)
    IN Flushed(SeqInsertLatched(s, root_id, kind, data, dsize, schema, page_size))

\* table Insert::next: schematize, then insert.  [st, s]
\* Insert::next as it would be if it checked the values after it took and
\* flushed the write guard of the table's first page.
TableInsertNextChecksLate(s, table, values, page_size) ==
    LET Schematized(v) ==
            IF v.st # "ok"
            THEN [st |-> "err", err |-> v.err, s |-> Notify(s, table.page_id, "Write")]
            ELSE SeqInsert(s, table.page_id, "row", v.values, v.size, table.schema, page_size)
    IN Schematized(validate_and_apply_defaults(values, table.schema))

TableInsertNext(s, table, values, page_size) ==
    LET Schematized(v) ==
            IF v.st # "ok" THEN [st |-> "err", err |-> v.err, s |-> s]
            ELSE SeqInsert(s, table.page_id, "row", v.values, v.size, table.schema, page_size)
    IN Schematized(validate_and_apply_defaults(values, table.schema))

\* object Create::next.  [st, s]
ObjectCreateNext(s, object, page_size) ==
    SeqInsert(s, FIRST_SCHEMA_PAGE_ID, "obj", object, ObjectSize(object), <<>>, page_size)

\* ------------------------------------------------------------------------
\* Scans.  A scan state is the iterator's Option<State>: init is FALSE for
\* None.  Iterator steps return [st, s, state, some, record]; some is FALSE
\* for end of stream.
\* ------------------------------------------------------------------------
NoState == [init |-> FALSE, page_id |-> NoPage, rem_total |-> 0, rem_page |-> 0, offset |-> 0]

\* The failure r (an error or a panic) carried over store s.
Fail(r, s) == [st |-> r.st, err |-> IF r.st = "err" THEN r.err ELSE "panic", s |-> s]

\* The loop of LinearScan::peek from an initialized state.
RECURSIVE PeekLoop(_, _, _, _, _)
PeekLoop(s, state, kind, schema, page_size) ==
    LET Decoded(g, d) ==
            IF d.st # "ok" THEN Fail(d, g.s)
            ELSE [st |-> "ok", s |-> Notify(g.s, state.page_id, "Read"), state |-> state,
                  some |-> TRUE, record |-> d.record]
        Moved(next_page_id, n) ==
            IF n.st # "ok" THEN Fail(n, n.s)
            ELSE IF n.page.ty # "Heap" THEN Fail([st |-> "panic"], n.s)
            ELSE PeekLoop(Notify(Notify(n.s, next_page_id, "Read"), state.page_id, "Read"),
                          [state EXCEPT !.page_id = next_page_id,
                                        !.rem_page = n.page.record_count,
                                        !.offset = 0],
                          kind, schema, page_size)
        Got(g) ==
            IF g.st # "ok" THEN Fail(g, g.s)
            ELSE IF g.page.ty # "Heap" THEN Fail([st |-> "panic"], g.s)
            ELSE IF state.rem_total = 0
            THEN [st |-> "ok", s |-> Notify(g.s, state.page_id, "Read"), state |-> state,
                  some |-> FALSE]
            ELSE IF state.rem_page = 0
            THEN IF g.page.next_page_id = NoPage THEN Fail([st |-> "panic"], g.s)
                 ELSE Moved(g.page.next_page_id,
                            PagerGet(g.s, g.page.next_page_id, page_size))
            ELSE Decoded(g, DecodeRecord(g.page, state.offset, kind, schema))
    IN Got(PagerGet(s, state.page_id, page_size))

\* LinearScan::peek as it would be if it consumed the record it returns.
PeekAdvances(s, state, root_id, kind, schema, page_size) ==
    LET Consumed(p) ==
            IF p.st # "ok" \/ ~p.some THEN p
            ELSE [p EXCEPT !.state = [@ EXCEPT !.offset = @ + RecordSize(p.record),
                                               !.rem_total = @ - 1,
                                               !.rem_page = @ - 1]]
        Got(g) ==
            IF g.st # "ok" THEN Fail(g, g.s)
            ELSE IF g.page.ty # "Heap" \/ ~g.page.seq.present THEN Fail([st |-> "panic"], g.s)
            ELSE Consumed(PeekLoop(Notify(g.s, root_id, "Read"),
                                   [init |-> TRUE, page_id |-> root_id,
                                    rem_total |-> g.page.seq.record_count,
                                    rem_page |-> g.page.record_count, offset |-> 0],
                                   kind, schema, page_size))
    IN IF state.init THEN Consumed(PeekLoop(s, state, kind, schema, page_size))
       ELSE Got(PagerGet(s, root_id, page_size))

\* LinearScan::peek with get_or_init_state
Peek(s, state, root_id, kind, schema, page_size) ==
    LET Got(g) ==
            IF g.st # "ok" THEN Fail(g, g.s)
            ELSE IF g.page.ty # "Heap" \/ ~g.page.seq.present THEN Fail([st |-> "panic"], g.s)
            ELSE PeekLoop(Notify(g.s, root_id, "Read"),
                          [init |-> TRUE, page_id |-> root_id,
                           rem_total |-> g.page.seq.record_count,
                           rem_page |-> g.page.record_count, offset |-> 0],
                          kind, schema, page_size)
    IN IF state.init THEN PeekLoop(s, state, kind, schema, page_size)
       ELSE Got(PagerGet(s, root_id, page_size))

\* LinearScan::next
ScanNext(s, state, root_id, kind, schema, page_size) ==
    LET Peeked(p) ==
            IF p.st # "ok" \/ ~p.some THEN p
            ELSE [p EXCEPT !.state = [@ EXCEPT !.offset = @ + RecordSize(p.record),
                                               !.rem_total = @ - 1,
                                               !.rem_page = @ - 1]]
    IN Peeked(Peek(s, state, root_id, kind, schema, page_size))

\* table Select::next and object Select::next: the next record that is not
\* deleted.
RECURSIVE SelectNext(_, _, _, _, _, _)
SelectNext(s, state, root_id, kind, schema, page_size) ==
    LET Scanned(r) ==
            IF r.st # "ok" \/ ~r.some THEN r
            ELSE IF r.record.is_deleted
            THEN SelectNext(r.s, r.state, root_id, kind, schema, page_size)
            ELSE r
    IN Scanned(ScanNext(s, state, root_id, kind, schema, page_size))

\* Object::find: [st, s, object]
RECURSIVE FindLoop(_, _, _, _)
FindLoop(s, state, name, page_size) ==
    LET Selected(r) ==
            IF r.st # "ok" THEN r
            ELSE IF ~r.some THEN [st |-> "err", err |-> "ExecError", s |-> r.s]
            ELSE IF r.record.data.name = name
            THEN [st |-> "ok", s |-> r.s, object |-> r.record.data]
            ELSE FindLoop(r.s, r.state, name, page_size)
    IN Selected(SelectNext(s, state, FIRST_SCHEMA_PAGE_ID, "obj", <<>>, page_size))

ObjectFind(s, name, page_size) == FindLoop(s, NoState, name, page_size)

\* ------------------------------------------------------------------------
\* Delete and Update.  A predicate is the set of ids it accepts; an updater
\* assigns a value to the column "text".  Steps return
\* [st, s, q, some, ev]: q is the iterator, ev describes the record the
\* step rewrote.
\* ------------------------------------------------------------------------
Pred(pred, values) == values["id"].v[1] \in pred

\* delete.rs:37 and update.rs:43 as they would be if only deleted records
\* were skipped.
SkipsDeletedOnly(record, pred) == record.is_deleted

\* delete.rs:37, update.rs:43: the records Delete::next and Update::next
\* pass over.
Skips(record, pred) == record.is_deleted \/ ~Pred(pred, record.data)

\* The updater closure
Updater(values, val) ==
    [n \in DOMAIN values \cup {"text"} |-> IF n = "text" THEN val ELSE values[n]]

\* What a step did to the record it matched: the record before and after,
\* the page's and the sequence's record counts around the step, the
\* record at the tail of the sequence's last page afterwards, and whether
\* the step wrote to the file.
EvOf(kind, old, new, s0, s1, table, dsize) ==
    LET root0 == s0.cache[table.page_id]
        root1 == s1.cache[table.page_id]
        tail_page == s1.cache[root1.seq.last_page_id]
        off == tail_page.free_offset - (2 + 1 + dsize)
    IN [kind |-> kind, old |-> old, new |-> new,
        page_before |-> s0.cache[old.page_id].record_count,
        page_after |-> s1.cache[old.page_id].record_count,
        seq_before |-> root0.seq, seq_after |-> root1.seq,
        wrote |-> s1.file # s0.file,
        tail |-> IF kind # "reloc" \/ off < 0 THEN [st |-> "none"]
                 ELSE DecodeRecord(tail_page, off, "row", table.schema)]

\* table Delete::next
RECURSIVE DeleteNext(_, _, _)
DeleteNext(s, q, page_size) ==
    LET Written(r, fo, record, w) ==
            IF w.st # "ok"
            THEN [st |-> "panic", err |-> "panic", s |-> fo.s, q |-> q]
            ELSE [st |-> "ok",
                  s |-> Notify(SetPage(fo.s, w.page), record.page_id, "Write"),
                  q |-> [q EXCEPT !.state = r.state, !.schema_known = TRUE,
                                  !.schema = fo.object.schema],
                  some |-> TRUE,
                  ev |-> EvOf("delete", r.record, record, s, fo.s, q.table, 0)]
        Marked(r, fo, record) ==
            Written(r, fo, record,
                    PageWriteAt(fo.s.cache[record.page_id], record.offset,
                                RecordBytes(record, "row", fo.object.schema)))
        Found(r, fo) ==
            IF fo.st # "ok" THEN [st |-> fo.st, err |-> fo.err, s |-> fo.s, q |-> q]
            ELSE IF fo.object.ty # "Table"
            THEN [st |-> "err", err |-> "ExecError", s |-> fo.s, q |-> q]
            ELSE Marked(r, fo, set_deleted(r.record))
        Ended(r, f) ==
            IF f.st # "ok" THEN [st |-> "panic", err |-> "panic", s |-> f.s, q |-> q]
            ELSE [st |-> "ok", s |-> f.s, q |-> [q EXCEPT !.state = r.state], some |-> FALSE]
        Scanned(r) ==
            IF r.st # "ok" THEN [st |-> r.st, err |-> r.err, s |-> r.s, q |-> q]
            ELSE IF ~r.some THEN Ended(r, FlushAll(r.s, page_size))
            ELSE IF Skips(r.record, q.pred)
            THEN DeleteNext(r.s, [q EXCEPT !.state = r.state], page_size)
            ELSE Found(r, IF q.schema_known
                          THEN [st |-> "ok", s |-> r.s,
                                object |-> [ty |-> "Table", schema |-> q.schema]]
                          ELSE ObjectFind(r.s, q.table.name, page_size))
    IN Scanned(ScanNext(s, q.state, q.table.page_id, "row", q.table.schema, page_size))

\* table Update::next
RECURSIVE UpdateNext(_, _, _)
UpdateNext(s, q, page_size) ==
    LET schema == q.table.schema
        Inserted(r, v, record, ins) ==
            IF ins.st # "ok"
            THEN [st |-> ins.st, err |-> IF ins.st = "err" THEN ins.err ELSE "panic",
                  s |-> ins.s, q |-> [q EXCEPT !.state = r.state]]
            ELSE [st |-> "ok", s |-> ins.s, q |-> [q EXCEPT !.state = r.state],
                  some |-> TRUE,
                  ev |-> EvOf("reloc", r.record, record, s, ins.s, q.table, v.size)]
        Stored(r, v, u, record, s1) ==
            IF u.ok
            THEN [st |-> "ok", s |-> s1, q |-> [q EXCEPT !.state = r.state], some |-> TRUE,
                  ev |-> EvOf("inplace", r.record, record, s, s1, q.table, v.size)]
            ELSE Inserted(r, v, record, TableInsertNext(s1, q.table, v.values, page_size))
        Written(r, v, u, record, w) ==
            IF w.st # "ok"
            THEN [st |-> "panic", err |-> "panic", s |-> r.s,
                  q |-> [q EXCEPT !.state = r.state]]
            ELSE Stored(r, v, u, record,
                        Notify(SetPage(r.s, w.page), record.page_id, "Write"))
        Chosen(r, v, u, record) ==
            Written(r, v, u, record,
                    PageWriteAt(r.s.cache[record.page_id], record.offset,
                                RecordBytes(record, "row", schema)))
        Tried(r, v, u) == Chosen(r, v, u, IF u.ok THEN u.record ELSE set_deleted(r.record))
        Schematized(r, v) ==
            IF v.st # "ok"
            THEN [st |-> "err", err |-> v.err, s |-> r.s, q |-> [q EXCEPT !.state = r.state]]
            ELSE Tried(r, v, try_update(r.record, v.values, v.size))
        Ended(r, f) ==
            IF f.st # "ok" THEN [st |-> "panic", err |-> "panic", s |-> f.s, q |-> q]
            ELSE [st |-> "ok", s |-> f.s, q |-> [q EXCEPT !.state = r.state], some |-> FALSE]
        Scanned(r) ==
            IF r.st # "ok" THEN [st |-> r.st, err |-> r.err, s |-> r.s, q |-> q]
            ELSE IF ~r.some THEN Ended(r, FlushAll(r.s, page_size))
            ELSE IF Skips(r.record, q.pred)
            THEN UpdateNext(r.s, [q EXCEPT !.state = r.state], page_size)
            ELSE Schematized(r, validate_and_apply_defaults(Updater(r.record.data, q.val),
                                                            schema))
    IN Scanned(ScanNext(s, q.state, q.table.page_id, "row", schema, page_size))

\* ------------------------------------------------------------------------
\* Db::execute.  A query q is [kind, table, values, object, pred, val, state,
\* schema_known, schema]; kind names the iterator.
\* ------------------------------------------------------------------------
NoTable == [found |-> FALSE, ty |-> "Index", schema |-> <<>>, page_id |-> NoPage,
            name |-> "?"]

NewQuery(kind, table, values, object, pred, val) ==
    [kind |-> kind, table |-> table, values |-> values, object |-> object,
     pred |-> pred, val |-> val, state |-> NoState, schema_known |-> FALSE,
     schema |-> <<>>]

NoEv == [kind |-> "none"]

\* Query::next of the iterator q: [st, err, s, q, some, item, ev]
QueryNext(s, q, page_size) ==
    LET Wrote(r) ==
            [st |-> r.st, err |-> IF r.st = "err" THEN r.err ELSE "panic", s |-> r.s,
             q |-> q, some |-> FALSE, item |-> <<>>, ev |-> NoEv]
        Selected(r) ==
            IF r.st # "ok"
            THEN [st |-> r.st, err |-> r.err, s |-> r.s, q |-> q, some |-> FALSE,
                  item |-> <<>>, ev |-> NoEv]
            ELSE [st |-> "ok", err |-> "", s |-> r.s, q |-> [q EXCEPT !.state = r.state],
                  some |-> r.some, item |-> IF r.some THEN r.record.data ELSE <<>>,
                  ev |-> NoEv]
        Rewrote(r) ==
            IF r.st # "ok"
            THEN [st |-> r.st, err |-> r.err, s |-> r.s, q |-> r.q, some |-> FALSE,
                  item |-> <<>>, ev |-> NoEv]
            ELSE [st |-> "ok", err |-> "", s |-> r.s, q |-> r.q, some |-> r.some,
                  item |-> <<>>, ev |-> IF r.some THEN r.ev ELSE NoEv]
    IN CASE q.kind = "Insert" -> Wrote(TableInsertNext(s, q.table, q.values, page_size))
         [] q.kind = "Create" -> Wrote(ObjectCreateNext(s, q.object, page_size))
         [] q.kind = "Select" ->
              Selected(SelectNext(s, q.state, q.table.page_id, "row", q.table.schema,
                                  page_size))
         [] q.kind = "ObjectSelect" ->
              Selected(SelectNext(s, q.state, FIRST_SCHEMA_PAGE_ID, "obj", <<>>, page_size))
         [] q.kind = "Delete" -> Rewrote(DeleteNext(s, q, page_size))
         [] q.kind = "Update" -> Rewrote(UpdateNext(s, q, page_size))

\* Db::execute's loop as it would be if the callback's error were dropped
\* and the loop went on to the next item.
RECURSIVE ExecLoopKeepsGoing(_, _, _, _, _)
ExecLoopKeepsGoing(s, q, failAt, acc, page_size) ==
    LET Called(r, fails, acc1) == ExecLoopKeepsGoing(r.s, r.q, failAt, acc1, page_size)
        Yielded(r, fails) ==
            Called(r, fails,
                   [log |-> acc.log \o <<"next:some", IF fails THEN "cb:err" ELSE "cb:ok">>,
                    yielded |-> Append(acc.yielded, r.item),
                    events |-> IF r.ev.kind = "none" THEN acc.events
                               ELSE Append(acc.events, r.ev)])
        Stepped(r) ==
            IF r.st = "panic"
            THEN [result |-> "Panic", s |-> r.s,
                  acc |-> [acc EXCEPT !.log = Append(@, "next:panic")]]
            ELSE IF r.st = "err"
            THEN [result |-> "Err", s |-> r.s,
                  acc |-> [acc EXCEPT !.log = Append(@, "next:err")]]
            ELSE IF ~r.some
            THEN [result |-> "OkOk", s |-> r.s,
                  acc |-> [acc EXCEPT !.log = Append(@, "next:none")]]
            ELSE Yielded(r, Len(acc.yielded) + 1 = failAt)
    IN Stepped(QueryNext(s, q, page_size))

\* The loop of Db::execute.  The callback fails on the item numbered failAt
\* (never when failAt is 0).  acc collects what the run did: the calls in
\* order (log), the items handed to the callback (yielded), the records
\* rewritten (events).  [result, s, acc]
RECURSIVE ExecLoop(_, _, _, _, _)
ExecLoop(s, q, failAt, acc, page_size) ==
    LET Called(r, fails, acc1) ==
            IF fails THEN [result |-> "OkErr", s |-> r.s, acc |-> acc1]
            ELSE ExecLoop(r.s, r.q, failAt, acc1, page_size)
        Yielded(r, fails) ==
            Called(r, fails,
                   [log |-> acc.log \o <<"next:some", IF fails THEN "cb:err" ELSE "cb:ok">>,
                    yielded |-> Append(acc.yielded, r.item),
                    events |-> IF r.ev.kind = "none" THEN acc.events
                               ELSE Append(acc.events, r.ev)])
        Stepped(r) ==
            IF r.st = "panic"
            THEN [result |-> "Panic", s |-> r.s,
                  acc |-> [acc EXCEPT !.log = Append(@, "next:panic")]]
            ELSE IF r.st = "err"
            THEN [result |-> "Err", s |-> r.s,
                  acc |-> [acc EXCEPT !.log = Append(@, "next:err")]]
            ELSE IF ~r.some
            THEN [result |-> "OkOk", s |-> r.s,
                  acc |-> [acc EXCEPT !.log = Append(@, "next:none")]]
            ELSE Yielded(r, Len(acc.yielded) + 1 = failAt)
    IN Stepped(QueryNext(s, q, page_size))

\* ------------------------------------------------------------------------
\* Inputs
\* ------------------------------------------------------------------------
Ids == {1, 2}

Text(len) == [k \in 1..len |-> 97]

Row(id, len) == [id |-> IntV(id), text |-> TextV(Text(len)), bool |-> BoolV(1)]

\* The rows a caller inserts, and a map whose id has the wrong type.
Rows == {Row(1, 40), Row(2, 40), Row(2, 20)}

\* The texts an updater assigns.
UpdateLens == {20, 60}

IllTyped == [id |-> TextV(<<>>)]

\* A row whose record (105 bytes) exceeds the body of an empty page of any
\* size in TableSizes.
Oversize == Row(1, 95)

\* The index object a caller creates.
IndexObject == [ty |-> "Index", schema |-> <<>>, page_id |-> 1, name |-> "ix"]

\* The item at which a callback fails (0: never).
FailAts == {0, 1, 2}

\* ------------------------------------------------------------------------
\* Bags of rows
\* ------------------------------------------------------------------------
RECURSIVE SeqToBag(_)
SeqToBag(seq) ==
    IF seq = <<>> THEN EmptyBag ELSE SetToBag({Head(seq)}) (+) SeqToBag(Tail(seq))

RECURSIVE BagSum(_, _)
BagSum(bag, set) ==
    IF set = {} THEN 0
    ELSE LET x == CHOOSE x \in set : TRUE IN bag[x] + BagSum(bag, set \ {x})

\* The bag of f(x) for x in bag.
BagMap(bag, f(_)) ==
    LET image == {f(x) : x \in DOMAIN bag}
    IN [y \in image |-> BagSum(bag, {x \in DOMAIN bag : f(x) = y})]

\* The rows of bag that do not satisfy pred.
BagWithout(bag, pred) ==
    [x \in {y \in DOMAIN bag : ~Pred(pred, y)} |-> bag[x]]

\* ------------------------------------------------------------------------
\* State
\* ------------------------------------------------------------------------
VARIABLES
    file,        \* the database file's bytes
    db,          \* "closed" or "open": whether a Db over the file is alive
    pageSize,    \* the page size of the pager (of the last open)
    cache,       \* the pager's cache
    queue,       \* the pager's notification queue
    openResult,  \* the outcome of the last Db::open_with_page_size
    sessions,    \* the number of Db values opened so far
    endCount,    \* the header page_count the last session ended with (0: none)
    fileBefore,  \* the file's bytes before the last Db::open_with_page_size
    createdSize, \* the page size the file was created at (0: not created)
    defined,     \* whether this session ran define_test_catalog
    table,       \* the table object the caller found (NoTable: none)
    ops,         \* the number of inserts, deletes, updates and creates so far
    reads,       \* the number of selects so far
    finds,       \* the number of Object::find calls by the caller so far
    last,        \* the last Db::execute: its query, result and what it did
    live,        \* the rows the caller's queries left in the table
    liveKnown,   \* FALSE once a delete or update stopped before its end
    hist,        \* the kinds of the queries that completed on the table
    created,     \* the objects the caller's ObjectCreate queries created, in order
    rec,         \* the SimpleRecord under try_update (page_id NoPage: none yet)
    recCreated,  \* the total_size SimpleRecord::new gave it
    recTrace,    \* the try_update calls on it: payload, outcome, bytes after
    pager,       \* "none", "live" or "panicked": the pager the tasks share
    slots,       \* every Arc<RwLock<Page>> made so far: page, readers, writer
    moka,        \* that pager's cache: page id -> index of the slot it holds
    tasks,       \* the tasks that call the pager: where each one is
    calls,       \* the number of Pager::get and Pager::alloc calls so far
    evicts,      \* the number of evictions so far
    allocs,      \* the page ids Pager::alloc returned, in order
    loads,       \* page id -> loader runs that succeeded since its last eviction
    got,         \* page id -> slots get_or_load handed out since its last eviction
    oob,         \* the page ids a Pager::get found out of bounds
    latch,       \* the write latches held by the tasks that run queries: page id -> task
    unflushed    \* page id -> the page as a write view dropped without flush() left it

\* The variables of the database sessions and of the record under update.
dbVars == <<file, db, pageSize, cache, queue, openResult, sessions, endCount, fileBefore,
            createdSize,
            defined, table, ops, reads, finds, last, live, liveKnown, hist, created>>

recVars == <<rec, recCreated, recTrace>>

\* The variables of the pager under concurrent tasks; it shares file,
\* queue and pageSize with the sessions.
pagerVars == <<pager, slots, moka, tasks, calls, evicts, allocs, loads, got, oob, latch,
              unflushed>>

\* What a caller of the Db holds besides the file and the queue.
callerVars == <<db, cache, openResult, sessions, endCount, fileBefore, createdSize,
                defined, table, ops, reads, finds, last, live, liveKnown, hist,
                created>>

vars == <<dbVars, recVars, pagerVars>>

Store == [file |-> file, cache |-> cache, queue |-> queue]

\* The tasks that share one pager, and the page ids they ask it for.
Tasks == {1, 2}

PageIds == {1, 3}

\* A task between two calls, n calls made so far.
IdleTask == [pc |-> "idle", op |-> "none", id |-> NoPage, slot |-> 0, new |-> NoPage,
             res |-> "none"]

NoExec == [kind |-> "none", result |-> "none", log |-> <<>>, yielded |-> <<>>,
           events |-> <<>>, values |-> <<>>, pred |-> {}, val |-> TextV(<<>>),
           queueAfter |-> <<>>, durable |-> TRUE]

Init ==
    /\ file = <<>>
    /\ db = "closed"
    /\ pageSize = 0
    /\ cache = EmptyCache
    /\ queue = <<>>
    /\ openResult = "none"
    /\ sessions = 0
    /\ endCount = 0
    /\ fileBefore = <<>>
    /\ createdSize = 0
    /\ defined = FALSE
    /\ table = NoTable
    /\ ops = 0
    /\ reads = 0
    /\ finds = 0
    /\ last = NoExec
    /\ live = EmptyBag
    /\ liveKnown = TRUE
    /\ hist = <<>>
    /\ created = <<>>
    /\ rec = RecordNew(NoPage, 0, <<>>, 0)
    /\ recCreated = 0
    /\ recTrace = <<>>
    /\ pager = "none"
    /\ slots = <<>>
    /\ moka = EmptyCache
    /\ tasks = [t \in Tasks |-> IdleTask]
    /\ calls = 0
    /\ evicts = 0
    /\ allocs = <<>>
    /\ loads = [id \in PageIds |-> 0]
    /\ got = [id \in PageIds |-> {}]
    /\ oob = {}
    /\ latch = EmptyCache
    /\ unflushed = EmptyCache

\* The header page_count a pager over cache c holds (0: no header cached).
HeaderCount(c) == IF 1 \in DOMAIN c /\ c[1].ty = "First" THEN c[1].page_count ELSE 0

\* The Db (or the process) goes away: the cache and the queue go with it.
Dropped(s) ==
    /\ db' = "closed"
    /\ file' = s.file
    /\ cache' = EmptyCache
    /\ queue' = <<>>
    /\ endCount' = HeaderCount(s.cache)
    /\ table' = NoTable
    /\ defined' = FALSE

\* The Db lives on over store s.
Kept(s) ==
    /\ file' = s.file
    /\ cache' = s.cache
    /\ queue' = s.queue
    /\ UNCHANGED <<db, endCount>>

\* Db::open_with_page_size(path, page_size)
Open(page_size) ==
    /\ db = "closed"
    /\ sessions < MaxSessions
    /\ LET Booted(b) ==
               /\ file' = b.s.file
               /\ openResult' = b.r
               /\ IF b.r \in {"new", "existing"}
                  THEN /\ db' = "open"
                       /\ cache' = b.s.cache
                       /\ queue' = b.s.queue
                  ELSE /\ db' = "closed"
                       /\ cache' = EmptyCache
                       /\ queue' = <<>>
               /\ createdSize' = IF b.r = "new" THEN page_size ELSE createdSize
       IN Booted(boot_first_page(file, page_size))
    /\ pageSize' = page_size
    /\ sessions' = sessions + 1
    /\ fileBefore' = file
    /\ defined' = FALSE
    /\ table' = NoTable
    /\ last' = NoExec
    /\ UNCHANGED <<recVars, pagerVars, created, endCount, ops, reads, finds, live, liveKnown, hist>>

\* The Db is dropped.
Close ==
    /\ db = "open"
    /\ Dropped(Store)
    /\ UNCHANGED <<recVars, pagerVars, created, pageSize, openResult, sessions, fileBefore, createdSize, ops, reads, finds, last, live,
                 liveKnown, hist>>

\* define_test_catalog: allocate the table's first page, create the table
\* object, flush.  [st, s]
define_test_catalog(s, page_size) ==
    LET Created(a, c) ==
            IF c.st # "ok" THEN c
            ELSE FlushAll(Notify(c.s, a.page.id, "Write"), page_size)
        Allocated(a) ==
            IF a.st # "ok" THEN a
            ELSE Created(a, ObjectCreateNext(a.s,
                                             [ty |-> "Table", schema |-> TestSchema,
                                              page_id |-> a.page.id, name |-> "test_table"],
                                             page_size))
    IN Allocated(Alloc(s, "first", page_size))

\* define_test_catalog(&db) by the caller of a new database
DefineTestCatalog ==
    /\ db = "open"
    /\ openResult = "new"
    /\ ~defined
    /\ LET Defined(d) ==
               IF d.st # "ok" THEN Dropped(d.s)
               ELSE Kept(d.s) /\ defined' = TRUE /\ table' = table
       IN Defined(define_test_catalog(Store, pageSize))
    /\ UNCHANGED <<recVars, pagerVars, created, pageSize, openResult, sessions, fileBefore, createdSize, ops, reads, finds, last, live,
                   liveKnown, hist>>

\* TestDb::new_temp: open a new file, define the test catalog.
NewTemp(page_size) ==
    /\ db = "closed"
    /\ sessions = 0
    /\ LET Defined(b, d) ==
               /\ openResult' = b.r
               /\ IF b.r # "new" THEN Dropped(b.s)
                  ELSE IF d.st # "ok" THEN Dropped(d.s)
                  ELSE /\ db' = "open"
                       /\ file' = d.s.file
                       /\ cache' = d.s.cache
                       /\ queue' = d.s.queue
                       /\ defined' = TRUE
                       /\ table' = NoTable
                       /\ endCount' = endCount
               /\ createdSize' = IF b.r = "new" THEN page_size ELSE createdSize
           Booted(b) == Defined(b, define_test_catalog(b.s, page_size))
       IN Booted(boot_first_page(file, page_size))
    /\ pageSize' = page_size
    /\ sessions' = sessions + 1
    /\ fileBefore' = file
    /\ last' = NoExec
    /\ UNCHANGED <<recVars, pagerVars, created, ops, reads, finds, live, liveKnown, hist>>

\* Object::find(db, "test_table") by the caller
FindTable ==
    /\ db = "open"
    /\ ~table.found
    /\ finds < MaxFinds
    /\ LET Found(r) ==
               IF r.st = "panic" THEN Dropped(r.s)
               ELSE /\ Kept(r.s)
                    /\ defined' = defined
                    /\ table' = IF r.st = "ok" /\ r.object.ty = "Table"
                                THEN [found |-> TRUE, ty |-> r.object.ty,
                                      schema |-> r.object.schema,
                                      page_id |-> r.object.page_id,
                                      name |-> r.object.name]
                                ELSE NoTable
       IN Found(ObjectFind(Store, "test_table", pageSize))
    /\ finds' = finds + 1
    /\ UNCHANGED <<recVars, pagerVars, created, pageSize, openResult, sessions, fileBefore, createdSize, ops, reads, last, live,
                   liveKnown, hist>>

\* Pager::flush_all called by the user of the pager
FlushAllCall ==
    /\ db = "open"
    /\ queue # <<>>
    /\ LET Flushed(f) ==
               IF f.st # "ok" THEN Dropped(f.s)
               ELSE Kept(f.s) /\ UNCHANGED <<table, defined>>
       IN Flushed(FlushAll(Store, pageSize))
    /\ UNCHANGED <<recVars, pagerVars, created, pageSize, openResult, sessions, fileBefore, createdSize, ops, reads, finds, last, live,
                 liveKnown, hist>>

\* The rows the table holds after query q ran to its end with result OkOk.
LiveAfter(q, values) ==
    CASE q.kind = "Insert" -> live (+) SetToBag({values})
      [] q.kind = "Delete" -> BagWithout(live, q.pred)
      [] q.kind = "Update" ->
           LET Upd(x) == IF Pred(q.pred, x) THEN Updater(x, q.val) ELSE x
           IN BagMap(live, Upd)
      [] OTHER -> live

\* Whether every page that differs in the cache between stores s0 and s1
\* is in s1's file as the cache holds it.
Durable(s0, s1, page_size) ==
    \A id \in DOMAIN s1.cache :
        (id \notin DOMAIN s0.cache \/ s0.cache[id] # s1.cache[id])
        => LET r == read_page(s1.file, id, page_size)
           IN r.st = "ok" /\ SerializeFits(s1.cache[id], page_size)
              /\ r.buf = Serialize(s1.cache[id], page_size)

\* How a completed query is remembered: an update by what it did to the
\* rows it matched.
HistTag(q, events) ==
    IF q.kind # "Update" THEN q.kind
    ELSE IF \E k \in 1..Len(events) : events[k].kind = "reloc" THEN "UpdateReloc"
    ELSE IF events # <<>> THEN "UpdateInPlace"
    ELSE "UpdateNone"

\* Db::execute(query, f)
Execute(q, failAt) ==
    /\ db = "open"
    /\ IF q.kind \in {"Select", "ObjectSelect"} THEN reads < MaxSelects ELSE ops < MaxOps
    /\ q.kind \in {"Insert", "Select", "Delete", "Update"} => table.found
    /\ LET mutating == q.kind \in {"Insert", "Delete", "Update"}
           Ran(r, v) ==
               /\ IF r.result = "Panic" THEN Dropped(r.s)
                  ELSE Kept(r.s) /\ UNCHANGED <<table, defined>>
               /\ last' = [kind |-> q.kind, result |-> r.result, log |-> r.acc.log,
                           yielded |-> r.acc.yielded, events |-> r.acc.events,
                           values |-> q.values, pred |-> q.pred, val |-> q.val,
                           queueAfter |-> r.s.queue,
                           durable |-> Durable(Store, r.s, pageSize)]
               /\ live' = IF r.result = "OkOk" THEN LiveAfter(q, v.values) ELSE live
               /\ liveKnown' = (liveKnown /\ (mutating /\ r.result # "OkOk"
                                                => q.kind = "Insert" /\ r.result = "Err"))
               /\ hist' = IF mutating /\ r.result = "OkOk"
                          THEN Append(hist, HistTag(q, r.acc.events)) ELSE hist
               /\ created' = IF q.kind = "Create" /\ r.result = "OkOk"
                             THEN Append(created, q.object) ELSE created
       IN Ran(ExecLoop(Store, q, failAt,
                       [log |-> <<>>, yielded |-> <<>>, events |-> <<>>], pageSize),
              validate_and_apply_defaults(q.values, TestSchema))
    /\ IF q.kind \in {"Select", "ObjectSelect"}
       THEN reads' = reads + 1 /\ ops' = ops
       ELSE ops' = ops + 1 /\ reads' = reads
    /\ UNCHANGED <<recVars, pagerVars, pageSize, openResult, sessions, fileBefore, createdSize, finds>>

\* The queries a caller runs on the catalog and on the table.
CatalogQueries ==
    {NewQuery("ObjectSelect", table, <<>>, IndexObject, {}, TextV(<<>>)),
     NewQuery("Create", table, <<>>, IndexObject, {}, TextV(<<>>))}

CreateQueries == {q \in CatalogQueries : q.kind = "Create"}

TableQueries ==
    {NewQuery("Insert", table, values, IndexObject, {}, TextV(<<>>)) :
        values \in Rows \cup {IllTyped}}
    \cup {NewQuery("Select", table, <<>>, IndexObject, {}, TextV(<<>>))}
    \cup {NewQuery("Delete", table, <<>>, IndexObject, {id}, TextV(<<>>)) : id \in Ids}
    \cup {NewQuery("Update", table, <<>>, IndexObject, {1}, TextV(Text(len))) :
            len \in UpdateLens}

\* The callback of an Insert or a Create is never called.
FailAtsOf(q) == IF q.kind \in {"Insert", "Create"} THEN {0} ELSE FailAts

\* One session over a new file with the test catalog, with every query.
OversizeQueries == {NewQuery("Insert", table, Oversize, IndexObject, {}, TextV(<<>>))}

Next ==
    \/ \E page_size \in TableSizes : NewTemp(page_size)
    \/ FindTable
    \/ \E q \in TableQueries : \E failAt \in FailAtsOf(q) : Execute(q, failAt)

Spec == Init /\ [][Next]_vars

\* Sessions over one file at any page size, with the catalog's queries.
NextSessions ==
    \/ \E page_size \in PageSizes : Open(page_size)
    \/ Close
    \/ DefineTestCatalog
    \/ FlushAllCall
    \/ \E q \in CreateQueries : \E failAt \in FailAtsOf(q) : Execute(q, failAt)

SpecSessions == Init /\ [][NextSessions]_vars

\* One session over a new file with the test catalog, with the queries of
\* every kind.
NextExecute ==
    \/ \E page_size \in TableSizes : NewTemp(page_size)
    \/ FindTable
    \/ \E q \in TableQueries \cup CatalogQueries \cup OversizeQueries :
          \E failAt \in FailAtsOf(q) : ops + reads < MaxExecs /\ Execute(q, failAt)

SpecExecute == Init /\ [][NextExecute]_vars

\* The same session with a caller that also calls Pager::flush_all itself,
\* after a query that stopped before its end or after Object::find.
SpecFlush == Init /\ [][NextExecute \/ FlushAllCall]_vars

\* ------------------------------------------------------------------------
\* The catalog alone: a Db over a new file, ObjectCreate queries of index
\* objects whose names are long enough for the catalog to spread over
\* several pages, and Object::find.
\* ------------------------------------------------------------------------
ObjectNames == {"a60", "b60"}

\* Object::find(name) by the caller; table holds what it returned, and the
\* name asked for when it returned an error.
FindObject(name) ==
    /\ db = "open"
    /\ finds < MaxFinds
    /\ LET Found(r) ==
               IF r.st = "panic" THEN Dropped(r.s)
               ELSE /\ Kept(r.s)
                    /\ defined' = defined
                    /\ table' = IF r.st = "ok"
                                THEN [found |-> TRUE, ty |-> r.object.ty,
                                      schema |-> r.object.schema,
                                      page_id |-> r.object.page_id,
                                      name |-> r.object.name]
                                ELSE [NoTable EXCEPT !.name = name]
       IN Found(ObjectFind(Store, name, pageSize))
    /\ finds' = finds + 1
    /\ UNCHANGED <<recVars, pagerVars, created, pageSize, openResult, sessions, fileBefore,
                   createdSize, ops, reads, last, live, liveKnown, hist>>

\* The k-th object a caller creates carries k as its page id, which tells
\* objects of one name apart.
NamedCreates ==
    {NewQuery("Create", table, <<>>,
              [IndexObject EXCEPT !.name = name, !.page_id = Len(created) + 1],
              {}, TextV(<<>>)) : name \in ObjectNames}

NextCatalog ==
    \/ \E page_size \in TableSizes : Open(page_size)
    \/ \E q \in NamedCreates : Execute(q, 0)
    \/ \E name \in ObjectNames : FindObject(name)

SpecCatalog == Init /\ [][NextCatalog]_vars

\* ------------------------------------------------------------------------
\* A record under SimpleRecord::try_update
\* ------------------------------------------------------------------------
\* The lengths of the texts of the payloads.
RecordLens == {0, 20, 40}

\* SimpleRecord::new(page_id, offset, data) for the row with a text of len
\* bytes.
RecordNewCall(len) ==
    /\ rec.page_id = NoPage
    /\ LET Made(r) == rec' = r /\ recCreated' = r.total_size
           Schematized(v) ==
               Made(RecordNew(FIRST_SCHEMA_PAGE_ID + 1, 0, v.values, v.size))
       IN Schematized(validate_and_apply_defaults(Row(1, len), TestSchema))
    /\ recTrace' = <<>>
    /\ UNCHANGED <<dbVars, pagerVars>>

\* record.try_update(new_data) for the row with a text of len bytes.
TryUpdateCall(len) ==
    /\ rec.page_id # NoPage
    /\ Len(recTrace) < MaxCalls
    /\ LET Updated(v, u) ==
               /\ rec' = u.record
               /\ recTrace' = Append(recTrace,
                                     [data |-> v.values, ok |-> u.ok,
                                      bytes |-> RecordBytes(u.record, "row", TestSchema)])
           Schematized(v) == Updated(v, try_update(rec, v.values, v.size))
       IN Schematized(validate_and_apply_defaults(Row(1, len), TestSchema))
    /\ UNCHANGED <<dbVars, pagerVars, recCreated>>

\* One record and the try_update calls on it.
NextRecord ==
    \/ \E len \in RecordLens : RecordNewCall(len)
    \/ \E len \in RecordLens : TryUpdateCall(len)

SpecRecord == Init /\ [][NextRecord]_vars

\* ------------------------------------------------------------------------
\* Values::schematize / Values::try_into_schematized
\* ------------------------------------------------------------------------
\* Values::from(HashMap): any map over some of the keys, with well typed
\* values, an ill typed id, and a key that is no column of the schema.
InputValues ==
    LET ValueChoices(name) ==
            CASE name = "id" -> {IntV(1), IntV(2), IntV(3), IntV(4), TextV(<<>>)}
              [] name = "text" -> {TextV(Text(0)), TextV(Text(1)), TextV(Text(2)), TextV(Text(3))}
              [] name = "bool" -> {BoolV(0), BoolV(1)}
              [] name = "extra" -> {IntV(7), TextV(<<>>)}
    IN UNION {{f \in [K -> UNION {ValueChoices(n) : n \in K}] :
                  \A n \in K : f[n] \in ValueChoices(n)} :
              K \in SUBSET {"id", "text", "bool", "extra"}}

\* values.try_into_schematized(schema) followed by SimpleRecord::new over
\* the schematized map, as Insert::write does; an Err leaves no record.
SchematizeCall(values) ==
    /\ LET Schematized(v) ==
               IF v.st = "ok"
               THEN /\ rec' = RecordNew(FIRST_SCHEMA_PAGE_ID + 1, 0, v.values, v.size)
                    /\ recCreated' = (2 + 1 + v.size) % 65536
               ELSE UNCHANGED <<rec, recCreated>>
       IN Schematized(validate_and_apply_defaults(values, TestSchema))
    /\ UNCHANGED <<dbVars, pagerVars, recTrace>>

SpecValues == Init /\ [][\E values \in InputValues : SchematizeCall(values)]_vars

\* ------------------------------------------------------------------------
\* The pager under concurrent tasks.  A slot is one Arc<RwLock<Page>>: the
\* page it holds and who has it locked.  A task is at "idle", at "loading"
\* (it runs the loader of its get), at "waiting" (for another task's
\* loader), at "guard" (it holds a PagerGuard), at "read" or "write" (it
\* holds a view), or inside Pager::alloc at "a_locked" (it holds the write
\* latch of the header) or "a_flushed" (the new page is in the file).
\* ------------------------------------------------------------------------
\* What a pager call reads from the file, past the cache.
PagerStore == [file |-> file, cache |-> EmptyCache, queue |-> queue]

\* by: whether Cache::insert_new or a loader of Cache::get_or_load made the
\* slot (a ghost).
NewSlot(page, by) == [page |-> page, readers |-> {}, writer |-> 0, by |-> by]

\* Cache::get_or_load as it would be if every caller that misses ran its
\* own loader.
NeverInFlight(id) == FALSE

\* Cache::get_or_load: whether a loader for key id is in flight, so that a
\* caller that misses waits for it.
InFlight(id) == \E t \in Tasks : tasks[t].pc = "loading" /\ tasks[t].id = id

\* Cache::get_or_load as it would be if the entry were installed whatever
\* the loader returned.
CacheAfterLoadKeepsFailure(m, id, r, slot) == CachePut(m, id, slot)

\* Cache::get_or_load: the cache after the loader returned r; slot is the
\* Arc made of a loaded value.
CacheAfterLoad(m, id, r, slot) == IF r.st = "ok" THEN CachePut(m, id, slot) ELSE m

\* The ghost maps loads and got after key id left the cache or entered it.
Forget(f, id, none) == IF id \in DOMAIN f THEN [f EXCEPT ![id] = none] ELSE f

\* Pager::new over a new file and boot_first_page.
PagerNew(page_size) ==
    /\ pager = "none"
    /\ LET Booted(b) ==
               /\ b.r = "new"
               /\ pager' = "live"
               /\ file' = b.s.file
               /\ queue' = b.s.queue
               /\ slots' = [k \in DOMAIN b.s.cache |-> NewSlot(b.s.cache[k], "insert")]
               /\ moka' = [k \in DOMAIN b.s.cache |-> k]
               /\ allocs' = <<HeaderCount(b.s.cache)>>
       IN Booted(boot_first_page(file, page_size))
    /\ pageSize' = page_size
    /\ UNCHANGED <<latch, unflushed, callerVars, recVars, tasks, calls, evicts, loads, got, oob>>

\* Cache::get_or_load up to the cache's answer, for a Pager::get (op "get")
\* and for the get of the header page that Pager::alloc starts with (op
\* "alloc").
GetCall(t, op, id) ==
    /\ pager = "live"
    /\ tasks[t].pc = "idle"
    /\ calls < MaxTaskOps
    /\ calls' = calls + 1
    /\ IF id \in DOMAIN moka
       THEN /\ tasks' = [tasks EXCEPT ![t] = [pc |-> "guard", op |-> op, id |-> id,
                                              slot |-> moka[id], new |-> NoPage,
                                              res |-> "hit"]]
            /\ got' = Forget(got, id, got[id] \cup {moka[id]})
       ELSE /\ tasks' = [tasks EXCEPT ![t] = [pc |-> IF InFlight(id) THEN "waiting"
                                                     ELSE "loading",
                                              op |-> op, id |-> id, slot |-> 0,
                                              new |-> NoPage, res |-> "none"]]
            /\ got' = got
    /\ UNCHANGED <<latch, unflushed, dbVars, recVars, pager, slots, moka, evicts, allocs, loads, oob>>

\* Pager::get, pager.rs:72-78, up to the cache's answer
Get(t, id) == GetCall(t, "get", id)

\* Pager::alloc, pager.rs:156
AllocGet(t) == GetCall(t, "alloc", 1)

\* The loader of task t's get returns (Pager::disk_read_page): the cache
\* installs what it loaded, and the loader and the tasks that waited for
\* it get the same answer.
LoadDone(t) ==
    /\ pager = "live"
    /\ tasks[t].pc = "loading"
    /\ LET id == tasks[t].id
           slot == Len(slots) + 1
           Answered(u) == u = t \/ (tasks[u].pc = "waiting" /\ tasks[u].id = id)
           \* insert_new installed the key while the loader ran
           Outside == id \in DOMAIN moka /\ slots[moka[id]].by = "insert"
           Loaded(r) ==
               /\ moka' = CacheAfterLoad(moka, id, r, slot)
               /\ slots' = IF r.st = "ok" THEN Append(slots, NewSlot(r.page, "load"))
                            ELSE slots
               /\ pager' = IF r.st = "panic" THEN "panicked" ELSE pager
               /\ tasks' = [u \in Tasks |->
                              IF ~Answered(u) THEN tasks[u]
                              ELSE IF r.st = "ok"
                              THEN [tasks[u] EXCEPT !.pc = "guard", !.slot = slot,
                                        !.res = IF u = t THEN "loaded" ELSE "shared"]
                              ELSE [IdleTask EXCEPT
                                        !.id = id,
                                        !.res = IF r.st = "err" THEN r.err ELSE "panic"]]
               /\ loads' = IF r.st # "ok" THEN loads
                            ELSE IF Outside THEN Forget(loads, id, 1)
                            ELSE Forget(loads, id, loads[id] + 1)
               /\ got' = IF r.st # "ok" THEN got
                          ELSE IF Outside THEN Forget(got, id, {slot})
                          ELSE Forget(got, id, got[id] \cup {slot})
               /\ oob' = IF r.st = "err" /\ r.err = "PageOutOfBounds" THEN oob \cup {id}
                         ELSE oob
       IN Loaded(PagerGet(PagerStore, id, pageSize))
    /\ UNCHANGED <<latch, unflushed, file, queue, pageSize, callerVars, recVars, calls, evicts, allocs>>

\* PagerGuard::read
ReadView(t) ==
    /\ pager = "live"
    /\ tasks[t].pc = "guard" /\ tasks[t].op = "get"
    /\ slots[tasks[t].slot].writer = 0
    /\ slots' = [slots EXCEPT ![tasks[t].slot].readers = @ \cup {t}]
    /\ tasks' = [tasks EXCEPT ![t].pc = "read"]
    /\ UNCHANGED <<latch, unflushed, dbVars, recVars, pager, moka, calls, evicts, allocs, loads, got, oob>>

\* PagerGuard::write
WriteView(t) ==
    /\ pager = "live"
    /\ tasks[t].pc = "guard" /\ tasks[t].op = "get"
    /\ slots[tasks[t].slot].writer = 0 /\ slots[tasks[t].slot].readers = {}
    /\ slots' = [slots EXCEPT ![tasks[t].slot].writer = t]
    /\ tasks' = [tasks EXCEPT ![t].pc = "write"]
    /\ UNCHANGED <<latch, unflushed, dbVars, recVars, pager, moka, calls, evicts, allocs, loads, got, oob>>

\* PagerReadGuard::release, and the guard is dropped
Release(t) ==
    /\ pager = "live"
    /\ tasks[t].pc = "read"
    /\ slots' = [slots EXCEPT ![tasks[t].slot].readers = @ \ {t}]
    /\ queue' = Notify(PagerStore, tasks[t].id, "Read").queue
    /\ tasks' = [tasks EXCEPT ![t] = IdleTask]
    /\ UNCHANGED <<latch, unflushed, file, pageSize, callerVars, recVars, pager, moka, calls, evicts, allocs, loads,
                   got, oob>>

\* PagerWriteGuard::flush, and the guard is dropped
FlushView(t) ==
    /\ pager = "live"
    /\ tasks[t].pc = "write"
    /\ slots' = [slots EXCEPT ![tasks[t].slot].writer = 0]
    /\ queue' = Notify(PagerStore, tasks[t].id, "Write").queue
    /\ tasks' = [tasks EXCEPT ![t] = IdleTask]
    /\ UNCHANGED <<latch, unflushed, file, pageSize, callerVars, recVars, pager, moka, calls, evicts, allocs, loads,
                   got, oob>>

\* Pager::alloc, pager.rs:157-161: the write latch of the header page is
\* taken and page_count incremented; the new page's id is the new count.
AllocLock(t) ==
    /\ pager = "live"
    /\ tasks[t].pc = "guard" /\ tasks[t].op = "alloc"
    /\ slots[tasks[t].slot].writer = 0 /\ slots[tasks[t].slot].readers = {}
    /\ IF slots[tasks[t].slot].page.ty # "First"
       THEN /\ pager' = "panicked"
            /\ UNCHANGED <<slots, tasks>>
       ELSE /\ pager' = pager
            /\ slots' = [slots EXCEPT ![tasks[t].slot].writer = t,
                                      ![tasks[t].slot].page.page_count = @ + 1]
            /\ tasks' = [tasks EXCEPT ![t].pc = "a_locked",
                            ![t].new = slots[tasks[t].slot].page.page_count + 1]
    /\ UNCHANGED <<latch, unflushed, dbVars, recVars, moka, calls, evicts, allocs, loads, got, oob>>

\* Pager::alloc, pager.rs:162-168: the new page is written to the file, the
\* header is scheduled for a flush and its write latch released.
AllocFlush(t) ==
    /\ pager = "live"
    /\ tasks[t].pc = "a_locked"
    /\ LET Written(w) ==
               IF w.st # "ok"
               THEN /\ pager' = "panicked"
                    /\ UNCHANGED <<file, queue, slots, tasks>>
               ELSE /\ pager' = pager
                    /\ file' = w.s.file
                    /\ queue' = Notify(w.s, 1, "Write").queue
                    /\ slots' = [slots EXCEPT ![tasks[t].slot].writer = 0]
                    /\ tasks' = [tasks EXCEPT ![t].pc = "a_flushed"]
       IN Written(flush_page(PagerStore, tasks[t].new,
                             new_seq_node(pageSize, tasks[t].new), pageSize))
    /\ UNCHANGED <<latch, unflushed, pageSize, callerVars, recVars, moka, calls, evicts, allocs, loads, got, oob>>

\* Pager::alloc, pager.rs:170-180: Cache::insert_new installs the new page
\* (it panics on a key the cache holds) and alloc returns.
AllocInsert(t) ==
    /\ pager = "live"
    /\ tasks[t].pc = "a_flushed"
    /\ IF tasks[t].new \in DOMAIN moka
       THEN /\ pager' = "panicked"
            /\ UNCHANGED <<slots, moka, tasks, allocs, loads, got>>
       ELSE /\ pager' = pager
            /\ slots' = Append(slots, NewSlot(new_seq_node(pageSize, tasks[t].new),
                                              "insert"))
            /\ moka' = CachePut(moka, tasks[t].new, Len(slots) + 1)
            /\ tasks' = [tasks EXCEPT ![t] = IdleTask]
            /\ allocs' = Append(allocs, tasks[t].new)
            /\ loads' = Forget(loads, tasks[t].new, 0)
            /\ got' = Forget(got, tasks[t].new, {})
    /\ UNCHANGED <<latch, unflushed, dbVars, recVars, calls, evicts, oob>>

\* Cache::evict: Pager::clear_cache, or the cache dropping an entry over its
\* capacity.
Evict(id) ==
    /\ pager = "live"
    /\ id \in DOMAIN moka
    /\ evicts < MaxEvicts
    /\ moka' = [k \in DOMAIN moka \ {id} |-> moka[k]]
    /\ evicts' = evicts + 1
    /\ loads' = Forget(loads, id, 0)
    /\ got' = Forget(got, id, {})
    /\ UNCHANGED <<latch, unflushed, dbVars, recVars, pager, slots, tasks, calls, allocs, oob>>

\* One turn of the loop of Pager::flush_all, pager.rs:98-136.
FlushOne ==
    /\ pager = "live"
    /\ queue # <<>>
    /\ LET page_id == Head(queue)[1]
           ref_type == Head(queue)[2]
           Written(w) ==
               /\ pager' = IF w.st = "ok" THEN pager ELSE "panicked"
               /\ file' = w.s.file
       IN IF page_id \notin DOMAIN moka
          THEN pager' = "panicked" /\ file' = file
          ELSE IF ref_type = "Write"
          THEN /\ slots[moka[page_id]].writer = 0
               /\ Written(flush_page(PagerStore, page_id, slots[moka[page_id]].page,
                                     pageSize))
          ELSE pager' = pager /\ file' = file
    /\ queue' = Tail(queue)
    /\ UNCHANGED <<latch, unflushed, pageSize, callerVars, recVars, slots, moka, tasks, calls, evicts, allocs,
                   loads, got, oob>>

NextPager ==
    \/ \E page_size \in TableSizes : PagerNew(page_size)
    \/ \E t \in Tasks, id \in PageIds : Get(t, id)
    \/ \E t \in Tasks : AllocGet(t)
    \/ \E t \in Tasks : LoadDone(t)
    \/ \E t \in Tasks : ReadView(t)
    \/ \E t \in Tasks : WriteView(t)
    \/ \E t \in Tasks : Release(t)
    \/ \E t \in Tasks : FlushView(t)
    \/ \E t \in Tasks : AllocLock(t)
    \/ \E t \in Tasks : AllocFlush(t)
    \/ \E t \in Tasks : AllocInsert(t)
    \/ \E id \in PageIds : Evict(id)
    \/ FlushOne

SpecPager == Init /\ [][NextPager]_vars

\* ------------------------------------------------------------------------
\* Write views that mutate their page and are dropped with or without
\* flush().
\* ------------------------------------------------------------------------
\* PagerWriteGuard::deref_mut: the task changes the page its write view
\* locks, as Pager::alloc does at pager.rs:159.  A change of the page
\* supersedes an earlier one that was dropped unflushed.
MutateView(t) ==
    /\ pager = "live"
    /\ tasks[t].pc = "write" /\ tasks[t].res # "mutated"
    /\ slots[tasks[t].slot].page.ty = "First"
    /\ slots' = [slots EXCEPT ![tasks[t].slot].page.page_count = @ + 1]
    /\ tasks' = [tasks EXCEPT ![t].res = "mutated"]
    /\ unflushed' = [k \in DOMAIN unflushed \ {tasks[t].id} |-> unflushed[k]]
    /\ UNCHANGED <<latch, dbVars, recVars, pager, moka, calls, evicts, allocs, loads, got, oob>>

\* Drop for PagerWriteGuard without flush(): the latch is released and no
\* notification is sent.
DropView(t) ==
    /\ pager = "live"
    /\ tasks[t].pc = "write"
    /\ slots' = [slots EXCEPT ![tasks[t].slot].writer = 0]
    /\ tasks' = [tasks EXCEPT ![t] = IdleTask]
    /\ unflushed' = IF tasks[t].res = "mutated"
                    THEN CachePut(unflushed, tasks[t].id, slots[tasks[t].slot].page)
                    ELSE unflushed
    /\ UNCHANGED <<latch, dbVars, recVars, pager, moka, calls, evicts, allocs, loads, got, oob>>

NextViews ==
    \/ \E page_size \in TableSizes : PagerNew(page_size)
    \/ \E t \in Tasks, id \in PageIds : Get(t, id)
    \/ \E t \in Tasks : LoadDone(t)
    \/ \E t \in Tasks : ReadView(t)
    \/ \E t \in Tasks : WriteView(t)
    \/ \E t \in Tasks : MutateView(t)
    \/ \E t \in Tasks : DropView(t)
    \/ \E t \in Tasks : Release(t)
    \/ \E t \in Tasks : FlushView(t)
    \/ \E id \in PageIds : Evict(id)
    \/ FlushOne

SpecViews == Init /\ [][NextViews]_vars

\* ------------------------------------------------------------------------
\* Cache::insert_new under tasks that run in parallel.  Between
\* contains_key and insert the task holds no lock, so the two are separate
\* steps of a task at "i_checked".
\* ------------------------------------------------------------------------
\* Cache::insert_new, cache.rs:49-51: contains_key, and the panic on a key
\* that is present.
InsertNewCheck(t, key) ==
    /\ pager = "live"
    /\ tasks[t].pc = "idle"
    /\ calls < MaxTaskOps
    /\ calls' = calls + 1
    /\ tasks' = [tasks EXCEPT ![t] =
                    IF key \in DOMAIN moka
                    THEN [IdleTask EXCEPT !.id = key, !.res = "panic"]
                    ELSE [IdleTask EXCEPT !.pc = "i_checked", !.op = "insert_new",
                                          !.id = key]]
    /\ UNCHANGED <<latch, unflushed, dbVars, recVars, pager, slots, moka, evicts, allocs,
                   loads, got, oob>>

\* Cache::insert_new, cache.rs:52: the insert into the moka cache, which
\* replaces the entry of a key that is present.
InsertNewPut(t) ==
    /\ pager = "live"
    /\ tasks[t].pc = "i_checked"
    /\ slots' = Append(slots, NewSlot(new_seq_node(pageSize, tasks[t].id), "insert"))
    /\ moka' = CachePut(moka, tasks[t].id, Len(slots) + 1)
    /\ tasks' = [tasks EXCEPT ![t] = [IdleTask EXCEPT !.id = tasks[t].id,
                                                      !.slot = Len(slots) + 1,
                                                      !.res = "installed"]]
    /\ UNCHANGED <<latch, unflushed, dbVars, recVars, pager, calls, evicts, allocs,
                   loads, got, oob>>

NextCache ==
    \/ \E page_size \in TableSizes : PagerNew(page_size)
    \/ \E t \in Tasks, key \in PageIds : InsertNewCheck(t, key)
    \/ \E t \in Tasks : InsertNewPut(t)
    \/ \E id \in PageIds : Evict(id)

SpecCache == Init /\ [][NextCache]_vars

\* ------------------------------------------------------------------------
\* Queries run by concurrent tasks over one Db.  latch maps a page id to
\* the task that holds the page's write latch, and 0 to the task that
\* holds the receiver of the notification queue (Pager::flush_all).  A task
\* is at "i_root", "i_last" and "i_write" inside Insert::next, at "u_next"
\* and "u_page" inside Update::next, at "f_take" and "f_loop" inside
\* flush_all, and ends at "done", "failed" or "panicked".
\* ------------------------------------------------------------------------
\* The rows the caller inserts before the tasks start.
MaxRows == 2

\* The task that holds latch id (0: nobody).
Holder(id) == IF id \in DOMAIN latch THEN latch[id] ELSE 0

\* The tasks that hold the read latch of page id: a scan that moves to the
\* next page of the sequence keeps the read view of the page it leaves
\* (linear_scan.rs:75-82).
Readers(id) == {t \in DOMAIN tasks : tasks[t].op = "Select" /\ id \in tasks[t].holds}

\* RwLock::write on latch id succeeds: nobody holds it, to write or to read.
Free(id) == Holder(id) = 0 /\ Readers(id) = {}

\* The latches l without those of the pages ids.
Unlatch(l, ids) == [k \in DOMAIN l \ ids |-> l[k]]

\* update.rs:76 as it would be if the write view of the record's page were
\* kept until Update::next returns.
TombstoneFlushLate(l, page_id) == l

\* update.rs:76, page.flush() before the nested Insert: the write view of
\* the record's page is given up.
TombstoneFlush(l, page_id) == Unlatch(l, {page_id})

\* The store after Insert::next of task t's values, up to its flush_all.
InsertOf(t) ==
    LET Schematized(v) ==
            SeqInsertLatched(Store, table.page_id, "row", v.values, v.size, table.schema,
                             pageSize)
    IN Schematized(validate_and_apply_defaults(tasks[t].values, table.schema))

\* The latch task t asks for where it is (-1: none).
Wants(t) ==
    LET pc == tasks[t].pc
        root == table.page_id
    IN CASE pc = "i_root" -> root
         [] pc = "i_last" ->
              IF cache[root].seq.last_page_id # root THEN cache[root].seq.last_page_id
              ELSE -1
         [] pc = "i_write" ->
              IF HeaderCount(InsertOf(t).s.cache) # HeaderCount(cache) THEN 1 ELSE -1
         [] pc = "u_page" -> tasks[t].record.page_id
         [] pc = "s_init" -> root
         [] pc = "s_peek" -> tasks[t].state.page_id
         [] pc = "s_move" -> cache[tasks[t].state.page_id].next_page_id
         [] pc = "f_take" -> 0
         [] pc = "f_loop" ->
              IF queue # <<>> /\ Head(queue)[2] = "Write" THEN Head(queue)[1] ELSE -1
         [] OTHER -> -1

\* The caller's inserts before any task starts.
Prefill(q) ==
    /\ \A t \in Tasks : tasks[t].pc = "idle"
    /\ ops < MaxRows
    /\ Execute(q, 0)

\* A task starts Db::execute of a TableInsert of its own row with a text of
\* len bytes, or of a TableUpdate that gives every row a text of len bytes.
QStart(t, op, len) ==
    /\ db = "open" /\ table.found
    /\ tasks[t].pc = "idle"
    /\ tasks' = [tasks EXCEPT ![t] =
                    [pc |-> IF op = "Insert" THEN "i_root" ELSE "u_next", op |-> op,
                     values |-> Row(2 + t, len), val |-> TextV(Text(len)),
                     state |-> NoState, record |-> RecordNew(NoPage, 0, <<>>, 0),
                     after |-> "done", relocated |-> {}]]
    /\ UNCHANGED <<dbVars, recVars, pager, slots, moka, calls, evicts, allocs, loads, got, oob, unflushed,
                   latch>>

\* Update::next, update.rs:39-45: the linear scan's next record.  The scan
\* takes and releases the read latch of every page it reads.
UScan(t) ==
    /\ db = "open"
    /\ tasks[t].pc = "u_next"
    /\ LET Scanned(r) ==
               /\ \A k \in (Len(queue) + 1)..Len(r.s.queue) : Holder(r.s.queue[k][1]) = 0
               /\ cache' = r.s.cache /\ queue' = r.s.queue /\ file' = r.s.file
               /\ tasks' = [tasks EXCEPT ![t] =
                     IF r.st # "ok" THEN [@ EXCEPT !.pc = "panicked"]
                     ELSE IF ~r.some THEN [@ EXCEPT !.pc = "f_take", !.after = "done"]
                     ELSE IF Skips(r.record, 1..4) THEN [@ EXCEPT !.state = r.state]
                     ELSE [@ EXCEPT !.pc = "u_page", !.state = r.state,
                                    !.record = r.record]]
       IN Scanned(ScanNext(Store, tasks[t].state, table.page_id, "row", table.schema,
                           pageSize))
    /\ UNCHANGED <<recVars, pager, slots, moka, calls, evicts, allocs, loads, got, oob, unflushed, latch,
                   db, pageSize, openResult, sessions, endCount, fileBefore, createdSize,
                   defined, table, ops, reads, finds, last, live, liveKnown, hist, created>>

\* Update::next, update.rs:46-82: the write latch of the record's page, the
\* update in place or the tombstone, page.flush().
UWrite(t) ==
    /\ db = "open"
    /\ tasks[t].pc = "u_page"
    /\ Free(tasks[t].record.page_id)
    /\ LET record == tasks[t].record
           Written(v, u, w) ==
               /\ cache' = IF w.st = "ok" THEN SetPage(Store, w.page).cache ELSE cache
               /\ queue' = IF w.st = "ok" THEN Notify(Store, record.page_id, "Write").queue
                           ELSE queue
               /\ latch' = IF w.st = "ok" /\ ~u.ok
                           THEN TombstoneFlush(CachePut(latch, record.page_id, t),
                                               record.page_id)
                           ELSE latch
               /\ tasks' = [tasks EXCEPT ![t] =
                     IF w.st # "ok" THEN [@ EXCEPT !.pc = "panicked"]
                     ELSE IF u.ok THEN [@ EXCEPT !.pc = "u_next"]
                     ELSE [@ EXCEPT !.pc = "i_root", !.values = v.values,
                                    !.after = "u_next",
                                    !.relocated = @ \cup {record.page_id}]]
           Tried(v, u) ==
               Written(v, u,
                       PageWriteAt(cache[record.page_id], record.offset,
                                   RecordBytes(IF u.ok THEN u.record ELSE set_deleted(record),
                                               "row", table.schema)))
           Schematized(v) == Tried(v, try_update(record, v.values, v.size))
       IN Schematized(validate_and_apply_defaults(Updater(record.data, tasks[t].val),
                                                  table.schema))
    /\ UNCHANGED <<recVars, pager, slots, moka, calls, evicts, allocs, loads, got, oob, unflushed,
                   file, db, pageSize, openResult, sessions, endCount, fileBefore, createdSize,
                   defined, table, ops, reads, finds, last, live, liveKnown, hist, created>>

\* Insert::next, insert.rs:42-43: the write latch of the sequence's root.
InsRoot(t) ==
    /\ db = "open"
    /\ tasks[t].pc = "i_root"
    /\ Free(table.page_id)
    /\ latch' = CachePut(latch, table.page_id, t)
    /\ tasks' = [tasks EXCEPT ![t].pc = "i_last"]
    /\ UNCHANGED <<dbVars, recVars, pager, slots, moka, calls, evicts, allocs, loads, got, oob, unflushed>>

\* Insert::next, insert.rs:44-51: the write latch of the sequence's last
\* page when it is not the root.
InsLast(t) ==
    /\ db = "open"
    /\ tasks[t].pc = "i_last"
    /\ Wants(t) # -1 => Free(Wants(t))
    /\ latch' = IF Wants(t) # -1 THEN CachePut(latch, Wants(t), t) ELSE latch
    /\ tasks' = [tasks EXCEPT ![t].pc = "i_write"]
    /\ UNCHANGED <<dbVars, recVars, pager, slots, moka, calls, evicts, allocs, loads, got, oob, unflushed>>

\* Insert::next, insert.rs:52-68: write the record (Pager::alloc takes the
\* header's write latch when the last page is full), update the root's
\* sequence header, flush the views.
InsWrite(t) ==
    /\ db = "open"
    /\ tasks[t].pc = "i_write"
    /\ Wants(t) # -1 => Free(Wants(t))
    /\ LET Inserted(r) ==
               /\ cache' = r.s.cache /\ queue' = r.s.queue /\ file' = r.s.file
               /\ tasks' = [tasks EXCEPT ![t].pc =
                               IF r.st = "ok" THEN "f_take"
                               ELSE IF r.st = "err" THEN "failed" ELSE "panicked"]
       IN Inserted(InsertOf(t))
    /\ latch' = Unlatch(latch, {id \in DOMAIN latch : id # 0 /\ latch[id] = t})
    /\ UNCHANGED <<recVars, pager, slots, moka, calls, evicts, allocs, loads, got, oob, unflushed,
                   db, pageSize, openResult, sessions, endCount, fileBefore, createdSize,
                   defined, table, ops, reads, finds, last, live, liveKnown, hist, created>>

\* Pager::flush_all, pager.rs:95: the lock of the queue's receiver.
FlushTake(t) ==
    /\ db = "open"
    /\ tasks[t].pc = "f_take"
    /\ Holder(0) = 0
    /\ latch' = CachePut(latch, 0, t)
    /\ tasks' = [tasks EXCEPT ![t].pc = "f_loop"]
    /\ UNCHANGED <<dbVars, recVars, pager, slots, moka, calls, evicts, allocs, loads, got, oob, unflushed>>

\* Pager::flush_all, pager.rs:98-136: one turn of the loop; a write
\* notification takes the page's read latch.  On the empty queue flush_all
\* returns, and the query with it or, after a relocation, Update::next.
FlushStep(t) ==
    /\ db = "open"
    /\ tasks[t].pc = "f_loop"
    /\ Wants(t) # -1 => Holder(Wants(t)) = 0
    /\ IF queue = <<>>
       THEN /\ latch' = Unlatch(latch, {0})
            /\ tasks' = [tasks EXCEPT ![t].pc = tasks[t].after]
            /\ UNCHANGED <<file, queue>>
       ELSE LET Flushed(f) ==
                    /\ file' = f.s.file
                    /\ queue' = Tail(queue)
                    /\ tasks' = [tasks EXCEPT ![t].pc = IF f.st = "ok" THEN @ ELSE "panicked"]
                    /\ latch' = IF f.st = "ok" THEN latch ELSE Unlatch(latch, {0})
            IN Flushed(FlushAll([Store EXCEPT !.queue = <<Head(queue)>>], pageSize))
    /\ UNCHANGED <<recVars, pager, slots, moka, calls, evicts, allocs, loads, got, oob, unflushed,
                   cache, db, pageSize, openResult, sessions, endCount, fileBefore, createdSize,
                   defined, table, ops, reads, finds, last, live, liveKnown, hist, created>>

NextTasks ==
    \/ \E page_size \in TableSizes : NewTemp(page_size)
    \/ FindTable
    \/ Prefill(NewQuery("Insert", table, Row(1, 40), IndexObject, {}, TextV(<<>>)))
    \/ \E t \in Tasks, op \in {"Insert", "Update"}, len \in UpdateLens : QStart(t, op, len)
    \/ \E t \in Tasks : UScan(t)
    \/ \E t \in Tasks : UWrite(t)
    \/ \E t \in Tasks : InsRoot(t)
    \/ \E t \in Tasks : InsLast(t)
    \/ \E t \in Tasks : InsWrite(t)
    \/ \E t \in Tasks : FlushTake(t)
    \/ \E t \in Tasks : FlushStep(t)

SpecTasks == Init /\ [][NextTasks]_vars

\* ------------------------------------------------------------------------
\* A TableSelect that runs as a task next to TableInserts.  Every
\* RwLock::read of the scan is a step.  tokio's RwLock is fair: a read is
\* not granted while a task waits for the write latch.  A select task is at
\* "s_init" (no scan state yet), at "s_peek" (LinearScan::peek's loop) or
\* at "s_move", inside load_next_state_for_page with the read view of the
\* page it leaves.
\* ------------------------------------------------------------------------
\* The places where a task asks for a write latch.
WritePcs == {"i_root", "i_last", "i_write", "u_page"}

\* RwLock::read on latch id by task t succeeds: nobody holds it to write
\* and no other task waits for it to write.
CanRead(t, id) ==
    /\ Holder(id) = 0
    /\ \A u \in Tasks \ {t} : ~(tasks[u].pc \in WritePcs /\ Wants(u) = id)

\* The caller's inserts before any task starts, one more than MaxRows so
\* that the sequence gets a third page.
PrefillScan(q) ==
    /\ \A t \in Tasks : tasks[t].pc = "idle"
    /\ ops < MaxRows + 1
    /\ Execute(q, 0)

\* A task starts Db::execute of a TableSelect.  before: the rows whose
\* insert completed before the select's first next (a ghost).
SStart(t) ==
    /\ db = "open" /\ table.found
    /\ tasks[t].pc = "idle"
    /\ tasks' = [tasks EXCEPT ![t] =
                    [pc |-> "s_init", op |-> "Select", values |-> <<>>,
                     val |-> TextV(<<>>), state |-> NoState,
                     record |-> RecordNew(NoPage, 0, <<>>, 0), after |-> "done",
                     relocated |-> {}, holds |-> {}, yielded |-> <<>>,
                     before |-> EmptyBag]]
    /\ UNCHANGED <<dbVars, recVars, pager, slots, moka, calls, evicts, allocs, loads, got,
                   oob, unflushed, latch>>

\* LinearScan::get_or_init_state without a state, linear_scan.rs:111-125:
\* the counters are read under the root's read latch, which is released.
SInit(t) ==
    /\ db = "open"
    /\ tasks[t].pc = "s_init"
    /\ CanRead(t, table.page_id)
    /\ LET done == {u \in Tasks : tasks[u].op = "Insert" /\ tasks[u].pc = "done"}
           Got(g) ==
               /\ cache' = g.s.cache
               /\ IF g.st # "ok" \/ g.page.ty # "Heap" \/ ~g.page.seq.present
                  THEN /\ tasks' = [tasks EXCEPT ![t].pc = "panicked"]
                       /\ queue' = queue
                  ELSE /\ tasks' = [tasks EXCEPT
                                      ![t].pc = "s_peek",
                                      ![t].before = live (+) SetToBag({tasks[u].values :
                                                                        u \in done}),
                                      ![t].state = [init |-> TRUE, page_id |-> table.page_id,
                                                    rem_total |-> g.page.seq.record_count,
                                                    rem_page |-> g.page.record_count,
                                                    offset |-> 0]]
                       /\ queue' = Notify(g.s, table.page_id, "Read").queue
       IN Got(PagerGet(Store, table.page_id, pageSize))
    /\ UNCHANGED <<recVars, pager, slots, moka, calls, evicts, allocs, loads, got, oob,
                   unflushed, latch, file, db, pageSize, openResult, sessions, endCount,
                   fileBefore, createdSize, defined, table, ops, reads, finds, last, live,
                   liveKnown, hist, created>>

\* One turn of the loop of LinearScan::peek under the read latch of the
\* scan's page, linear_scan.rs:66-100, with LinearScan::next and
\* Select::next: the end of the scan, the record at the scan's offset, or,
\* on a page that is used up, its next_page_id with the read view kept.
SPeek(t) ==
    /\ db = "open"
    /\ tasks[t].pc = "s_peek"
    /\ CanRead(t, tasks[t].state.page_id)
    /\ LET state == tasks[t].state
           Decoded(g, d) ==
               IF d.st # "ok"
               THEN /\ tasks' = [tasks EXCEPT ![t].pc = "panicked"]
                    /\ queue' = queue
               ELSE /\ tasks' = [tasks EXCEPT
                                   ![t].state = [state EXCEPT
                                                    !.offset = @ + RecordSize(d.record),
                                                    !.rem_total = @ - 1,
                                                    !.rem_page = @ - 1],
                                   ![t].yielded = IF d.record.is_deleted THEN @
                                                  ELSE Append(@, d.record.data)]
                    /\ queue' = Notify(g.s, state.page_id, "Read").queue
           Got(g) ==
               /\ cache' = g.s.cache
               /\ IF g.st # "ok" \/ g.page.ty # "Heap"
                  THEN /\ tasks' = [tasks EXCEPT ![t].pc = "panicked"]
                       /\ queue' = queue
                  ELSE IF state.rem_total = 0
                  THEN /\ tasks' = [tasks EXCEPT ![t].pc = "done"]
                       /\ queue' = Notify(g.s, state.page_id, "Read").queue
                  ELSE IF state.rem_page = 0
                  THEN /\ tasks' = [tasks EXCEPT
                                      ![t].pc = IF g.page.next_page_id = NoPage
                                                THEN "panicked" ELSE "s_move",
                                      ![t].holds = IF g.page.next_page_id = NoPage
                                                   THEN {} ELSE {state.page_id}]
                       /\ queue' = queue
                  ELSE Decoded(g, DecodeRecord(g.page, state.offset, "row", table.schema))
       IN Got(PagerGet(Store, state.page_id, pageSize))
    /\ UNCHANGED <<recVars, pager, slots, moka, calls, evicts, allocs, loads, got, oob,
                   unflushed, latch, file, db, pageSize, openResult, sessions, endCount,
                   fileBefore, createdSize, defined, table, ops, reads, finds, last, live,
                   liveKnown, hist, created>>

\* LinearScan::load_next_state_for_page, linear_scan.rs:128-139, and
\* page.release() at linear_scan.rs:81: the read latch of the next page is
\* taken while the one of the scan's page is held, then both are released.
SMove(t) ==
    /\ db = "open"
    /\ tasks[t].pc = "s_move"
    /\ CanRead(t, Wants(t))
    /\ LET state == tasks[t].state
           Got(next, n) ==
               /\ cache' = n.s.cache
               /\ IF n.st # "ok" \/ n.page.ty # "Heap"
                  THEN /\ tasks' = [tasks EXCEPT ![t].pc = "panicked", ![t].holds = {}]
                       /\ queue' = queue
                  ELSE /\ tasks' = [tasks EXCEPT
                                      ![t].pc = "s_peek", ![t].holds = {},
                                      ![t].state = [state EXCEPT
                                                       !.page_id = next,
                                                       !.rem_page = n.page.record_count,
                                                       !.offset = 0]]
                       /\ queue' = Notify(Notify(n.s, next, "Read"), state.page_id,
                                          "Read").queue
       IN Got(Wants(t), PagerGet(Store, Wants(t), pageSize))
    /\ UNCHANGED <<recVars, pager, slots, moka, calls, evicts, allocs, loads, got, oob,
                   unflushed, latch, file, db, pageSize, openResult, sessions, endCount,
                   fileBefore, createdSize, defined, table, ops, reads, finds, last, live,
                   liveKnown, hist, created>>

NextScan ==
    \/ \E page_size \in TableSizes : NewTemp(page_size)
    \/ FindTable
    \/ \E id \in Ids :
          PrefillScan(NewQuery("Insert", table, Row(id, 40), IndexObject, {}, TextV(<<>>)))
    \/ \E t \in Tasks, len \in UpdateLens : QStart(t, "Insert", len)
    \/ \E t \in Tasks : SStart(t)
    \/ \E t \in Tasks : SInit(t)
    \/ \E t \in Tasks : SPeek(t)
    \/ \E t \in Tasks : SMove(t)
    \/ \E t \in Tasks : InsRoot(t)
    \/ \E t \in Tasks : InsLast(t)
    \/ \E t \in Tasks : InsWrite(t)
    \/ \E t \in Tasks : FlushTake(t)
    \/ \E t \in Tasks : FlushStep(t)

SpecScan == Init /\ [][NextScan]_vars

\* ------------------------------------------------------------------------
\* Properties
\* ------------------------------------------------------------------------
\* The last completed query that changed the table is remembered as tag.
LastChange(tag) == hist # <<>> /\ hist[Len(hist)] = tag

OnlyInserts == \A k \in 1..Len(hist) : hist[k] = "Insert"

\* The last Db::execute was a table Select whose callback never failed,
\* over a table whose rows are known.
SelectRan == last.kind = "Select" /\ last.result # "OkErr" /\ liveKnown

\* That Select reached the end of the stream and yielded exactly the rows
\* of the table, as a multiset.
SelectYieldsLive == last.result = "OkOk" /\ SeqToBag(last.yielded) = live

\* C1: after any sequence of successful table inserts, with no delete and
\* no update, a table Select yields exactly the multiset of the rows
\* inserted, whether they fill one page, two pages, or three and more.
C1_SelectYieldsInserted == (SelectRan /\ OnlyInserts) => SelectYieldsLive

\* C2: after a table Delete with predicate p has run to the end of its
\* stream, a table Select yields exactly the rows that were live before the
\* delete and do not satisfy p.
C2_SelectAfterDelete == (SelectRan /\ LastChange("Delete")) => SelectYieldsLive

\* The relocations of the last Db::execute each tombstoned the original
\* slot, appended the new row at the tail of the sequence and raised the
\* sequence's record count by one.
RelocationsWellFormed ==
    \A k \in 1..Len(last.events) :
        LET ev == last.events[k]
        IN ev.kind = "reloc" =>
            /\ ev.new.is_deleted
            /\ ev.new.page_id = ev.old.page_id /\ ev.new.offset = ev.old.offset
            /\ ev.tail.st = "ok"
            /\ ~ev.tail.record.is_deleted
            /\ ev.tail.record.data = Updater(ev.old.data, last.val)
            /\ ev.seq_after.record_count = ev.seq_before.record_count + 1

\* C3: a table Update whose new payload is larger than the record's
\* available data size tombstones the original slot and appends the new row
\* at the tail of the sequence, raising the sequence's record count by one
\* per relocated row; a table Select afterwards yields the new row exactly
\* once and the old version never.
C3_GrowingUpdateRelocates ==
    /\ last.kind = "Update" => RelocationsWellFormed
    /\ (SelectRan /\ LastChange("UpdateReloc")) => SelectYieldsLive

\* The in-place rewrites of the last Db::execute each kept the record's
\* page, offset and total size, left it live, grew the padding by the
\* difference of the payload sizes, and kept the page's and the sequence's
\* record counts.
RewritesWellFormed ==
    \A k \in 1..Len(last.events) :
        LET ev == last.events[k]
        IN ev.kind = "inplace" =>
            /\ ev.new.page_id = ev.old.page_id /\ ev.new.offset = ev.old.offset
            /\ ev.new.total_size = ev.old.total_size
            /\ ~ev.new.is_deleted
            /\ ev.new.data = Updater(ev.old.data, last.val)
            /\ ev.new.pad_size = ev.old.pad_size + (ev.old.dsize - ev.new.dsize)
            /\ ev.page_after = ev.page_before
            /\ ev.seq_after = ev.seq_before

\* C4: a table Update whose new payload is no larger than the record's
\* available data size rewrites the record in place: same page, offset and
\* total size, tombstone clear, padding grown by the size difference, record
\* counts unchanged, also for a row that an earlier update had already
\* shrunk; a table Select afterwards yields the updated row exactly once.
C4_ShrinkingUpdateInPlace ==
    /\ last.kind = "Update" => RewritesWellFormed
    /\ (SelectRan /\ LastChange("UpdateInPlace")) => SelectYieldsLive

\* C5: Db::execute returns the outer Ok exactly when every call of next
\* succeeded; the inner error is the callback's first error, after which
\* there is no further call of next or of the callback; an error of next
\* is the outer error.
C5_ExecuteResult ==
    last.kind # "none" =>
        LET log == last.log
            n == Len(log)
        IN /\ n > 0
           /\ \A k \in 1..(n - 1) : log[k] \in {"next:some", "cb:ok"}
           /\ \A k \in 1..n : log[k] = "next:some" =>
                                 (k < n /\ log[k + 1] \in {"cb:ok", "cb:err"})
           /\ \A k \in 1..n : log[k] \in {"cb:ok", "cb:err"} =>
                                 (k > 1 /\ log[k - 1] = "next:some")
           /\ last.result \in {"OkOk", "OkErr"}
                <=> \A k \in 1..n : log[k] \notin {"next:err", "next:panic"}
           /\ last.result = "Err" <=> log[n] = "next:err"
           /\ last.result = "OkErr" <=> log[n] = "cb:err"
           /\ last.result = "OkOk" <=> log[n] = "next:none"
           /\ Len(last.yielded) = Cardinality({k \in 1..n : log[k] = "next:some"})

\* A Select whose callback failed on the second of its items.
C5_Witness ==
    /\ last.kind = "Select"
    /\ last.result = "OkErr"
    /\ last.log = <<"next:some", "cb:ok", "next:some", "cb:err">>
    /\ Len(last.yielded) = 2

\* C6: for every kind of query, when Db::execute returns Ok(Ok(())) the
\* pager's flush_all has run after the last call of next: the notification
\* queue is empty and every page the query changed is in the file.
C6_ExecuteFlushes == last.result = "OkOk" => (last.queueAfter = <<>> /\ last.durable)

\* C7: opening a file that an earlier session created returns
\* is_new = false and sees the header page count the previous session ended
\* with, so that the next page id allocated names no page of the file.
C7_ReopenKeepsPageCount ==
    [][(db = "closed" /\ db' = "open" /\ file # <<>>)
        => (/\ openResult' = "existing"
            /\ HeaderCount(cache') = endCount
            /\ HeaderCount(cache') * pageSize' >= Len(file'))]_vars

\* Page 2 of store (c, f) is the root of the catalog's sequence, empty, in
\* the cache and in the file.
IsEmptyCatalogRoot(c, f, page_size) ==
    /\ FIRST_SCHEMA_PAGE_ID \in DOMAIN c
    /\ c[FIRST_SCHEMA_PAGE_ID] =
         [ty |-> "Heap", id |-> FIRST_SCHEMA_PAGE_ID,
          seq |-> [present |-> TRUE, last_page_id |-> FIRST_SCHEMA_PAGE_ID,
                   page_count |-> 1, record_count |-> 0],
          next_page_id |-> NoPage, record_count |-> 0, free_offset |-> 0,
          bytes |-> c[FIRST_SCHEMA_PAGE_ID].bytes]
    /\ read_page(f, FIRST_SCHEMA_PAGE_ID, page_size) =
         [st |-> "ok", buf |-> Serialize(c[FIRST_SCHEMA_PAGE_ID], page_size)]

\* C8: Db::open of a missing or empty file does not fail and returns
\* is_new = true; afterwards page 1 is the header page with page count 2
\* and page 2 is the catalog's root heap page: sequence header present,
\* last_page_id 2, page_count 1, record_count 0, no next page.
C8_OpenBootstrapsEmptyFile ==
    [][(db = "closed" /\ sessions' = sessions + 1 /\ file = <<>> /\ pageSize' >= HEADER_SIZE)
        => (/\ openResult' = "new"
            /\ db' = "open"
            /\ 1 \in DOMAIN cache' /\ cache'[1].ty = "First"
            /\ HeaderCount(cache') = 2
            /\ IsEmptyCatalogRoot(cache', file', pageSize'))]_vars

\* A Db just opened over a new file at the default page size.
C8_Witness ==
    /\ db = "open"
    /\ openResult = "new"
    /\ pageSize = DEFAULT_PAGE_SIZE
    /\ fileBefore = <<>>
    /\ ~defined /\ last = NoExec
    /\ HeaderCount(cache) = 2
    /\ IsEmptyCatalogRoot(cache, file, pageSize)

\* C9: for a file created at page size p, Db::open_with_page_size with any
\* other page size q, smaller or larger than p or larger than the whole
\* file, returns an exec error and leaves the file's bytes unchanged.
C9_PageSizeMismatchIsExecError ==
    [][(db = "closed" /\ sessions' = sessions + 1 /\ createdSize # 0
        /\ pageSize' # createdSize)
        => (openResult' = "ExecError" /\ file' = file)]_vars

\* The pages of cache c reachable from page id by next_page_id, given the
\* pages seen so far.
RECURSIVE Chain(_, _, _)
Chain(c, id, seen) ==
    IF id = NoPage \/ id \in seen \/ id \notin DOMAIN c \/ c[id].ty # "Heap" THEN seen
    ELSE Chain(c, c[id].next_page_id, seen \cup {id})

RECURSIVE SumRecords(_, _)
SumRecords(c, ids) ==
    IF ids = {} THEN 0
    ELSE LET id == CHOOSE id \in ids : TRUE
         IN c[id].record_count + SumRecords(c, ids \ {id})

\* The sequence rooted at page id of cache c has the record count and the
\* page count of the pages chained from it.
SeqCounted(c, id) ==
    LET pages == Chain(c, id, {})
    IN /\ c[id].seq.record_count = SumRecords(c, pages)
       /\ c[id].seq.page_count = Cardinality(pages)

\* C10: in every state reached by inserts, deletes and updates, every heap
\* sequence's record_count is the sum of the record counts of the pages
\* reachable from its root by next_page_id, and its page_count is the
\* number of those pages.
C10_SequenceCounters ==
    db = "open" =>
        \A id \in DOMAIN cache :
            (cache[id].ty = "Heap" /\ cache[id].seq.present) => SeqCounted(cache, id)

\* The sequence rooted at page id of cache c ends at the page its header
\* names last: that page is chained from the root, it alone has no next
\* page, and every other page's next page is another page of the chain.
LastIsTerminal(c, id) ==
    LET pages == Chain(c, id, {})
        last_page_id == c[id].seq.last_page_id
    IN /\ last_page_id \in pages
       /\ \A p \in pages :
            IF p = last_page_id THEN c[p].next_page_id = NoPage
            ELSE c[p].next_page_id \in pages \ {p}

\* C11: in every reachable state the page named by the root's sequence
\* last_page_id is the terminal page of the chain and the only page of the
\* sequence without a next_page_id; every other page's next_page_id names
\* a different page of the same sequence.
C11_LastPageIsTerminal ==
    db = "open" =>
        \A id \in DOMAIN cache :
            (cache[id].ty = "Heap" /\ cache[id].seq.present) => LastIsTerminal(cache, id)

\* C12: for every record and every sequence of try_update calls on it,
\* total_size = 3 + payload size + pad_size holds after each call, and
\* total_size stays what SimpleRecord::new made it.
C12_TotalSizeKept ==
    rec.page_id # NoPage =>
        /\ rec.total_size = 2 + 1 + rec.dsize + rec.pad_size
        /\ rec.total_size = recCreated

\* C13: two try_update calls in a row with the same payload leave the
\* record with the serialized bytes the first of them left.
C13_TryUpdateTwiceSameBytes ==
    \A k \in 1..(Len(recTrace) - 1) :
        recTrace[k + 1].data = recTrace[k].data
        => recTrace[k + 1].bytes = recTrace[k].bytes


\* The header page_count as the pager holds it: that of the cached header
\* page, or of the header page in the file when the cache holds none.
PagerHeaderCount ==
    LET Got(g) == IF g.st = "ok" /\ g.page.ty = "First" THEN g.page.page_count ELSE 0
    IN IF 1 \in DOMAIN moka THEN HeaderCount(<<slots[moka[1]].page>>)
       ELSE Got(PagerGet(PagerStore, 1, pageSize))

\* C14: within one pager, every successful alloc returns a page id greater
\* than every id returned before it, the incremented header page_count (so
\* no two allocs, concurrent or not, return the same id), and the header
\* page_count never decreases.
C14_AllocMonotonic ==
    /\ [](pager = "live" => \A i, j \in DOMAIN allocs : i < j => allocs[i] < allocs[j])
    /\ [][(pager = "live" /\ pager' = "live") =>
            /\ PagerHeaderCount' >= PagerHeaderCount
            /\ \A t \in Tasks :
                 /\ (tasks[t].pc = "guard" /\ tasks'[t].pc = "a_locked") =>
                      /\ PagerHeaderCount' = PagerHeaderCount + 1
                      /\ tasks'[t].new = PagerHeaderCount'
                 /\ (tasks[t].pc = "a_flushed" /\ tasks'[t].pc = "idle") =>
                      allocs' = Append(allocs, tasks[t].new)]_vars


\* C15: at every moment and for every page id, all live guards and views of
\* the page refer to one and the same cache slot, and a write view never
\* coexists with another read or write view of the page, also when the page
\* is evicted while guards on it are alive and is then loaded again.
C15_OneSlotPerPage ==
    LET Holds(t) == tasks[t].pc \in {"guard", "read", "write", "a_locked", "a_flushed"}
        Views(t) == tasks[t].pc \in {"read", "write", "a_locked"}
        Writes(t) == tasks[t].pc \in {"write", "a_locked"}
    IN pager = "live" =>
         \A t, u \in Tasks :
            (t # u /\ Holds(t) /\ Holds(u) /\ tasks[t].id = tasks[u].id) =>
                /\ tasks[t].slot = tasks[u].slot
                /\ ~(Writes(t) /\ Views(u))


C17_GetOutOfBounds ==
    [][\A t \in Tasks :
         (pager = "live" /\ tasks[t].pc = "loading" /\ tasks'[t].pc # "loading") =>
            /\ PageOffset(tasks[t].id, pageSize) >= Len(file) =>
                 /\ tasks'[t].pc = "idle"
                 /\ tasks'[t].res = "PageOutOfBounds"
                 /\ tasks'[t].id = tasks[t].id
                 /\ moka' = moka
                 /\ slots' = slots
            /\ PageOffset(tasks[t].id, pageSize) + pageSize <= Len(file) =>
                 /\ tasks'[t].pc = "guard"
                 /\ tasks[t].id \in DOMAIN moka'
                 /\ tasks'[t].slot = moka'[tasks[t].id]]_vars

\* A get of a page past the end of the file failed, the page was then
\* written, and a task holds the guard of a later get that loaded it.
C17_Witness ==
    /\ pager = "live"
    /\ \E t \in Tasks :
         /\ tasks[t].pc = "guard"
         /\ tasks[t].id \in oob
         /\ tasks[t].res = "loaded"


\* What a later insert of row and a later select do on the store s: the
\* results of the two queries and the rows the select yields.
LaterInsertSelect(s, row) ==
    LET acc == [log |-> <<>>, yielded |-> <<>>, events |-> <<>>]
        Selected(i, r) == <<i.result, r.result, r.acc.yielded>>
        Inserted(i) ==
            Selected(i, ExecLoop(i.s, NewQuery("Select", table, <<>>, IndexObject, {},
                                               TextV(<<>>)), 0, acc, pageSize))
    IN Inserted(ExecLoop(s, NewQuery("Insert", table, row, IndexObject, {}, TextV(<<>>)),
                         0, acc, pageSize))

\* C18: a TableInsert whose record does not fit even in a freshly allocated
\* page returns an exec error; the header page_count has grown by 1, every
\* page of the sequence (its record_count, page_count, last_page_id,
\* next_page_id and stored records) is unchanged, and a later insert of a
\* fitting record and a later select behave as if the failed insert had not
\* happened.
C18_OversizeInsert ==
    [][(db = "open" /\ ops' = ops + 1 /\ last'.kind = "Insert" /\ last'.values = Oversize) =>
         /\ last'.result = "Err"
         /\ db' = "open"
         /\ HeaderCount(cache') = HeaderCount(cache) + 1
         /\ DOMAIN cache' = DOMAIN cache \cup {HeaderCount(cache')}
         /\ \A id \in DOMAIN cache \ {1} : cache'[id] = cache[id]
         /\ cache'[HeaderCount(cache')].record_count = 0
         /\ SubSeq(file', 1, Len(file)) = file
         /\ live' = live
         /\ \A row \in Rows :
              LaterInsertSelect([file |-> file', cache |-> cache', queue |-> queue'], row)
                = LaterInsertSelect(Store, row)]_vars

\* The oversize insert failed on a sequence of two pages, the second of
\* them holding a record, and left a page behind.
C18_Witness ==
    /\ last.kind = "Insert" /\ last.values = Oversize /\ last.result = "Err"
    /\ table.found
    /\ table.page_id \in DOMAIN cache
    /\ cache[table.page_id].seq.page_count = 2
    /\ HeaderCount(cache) = cache[table.page_id].seq.last_page_id + 1


\* C19: a TableInsert whose values map holds a value of a type other than
\* the column's declared type returns an exec error before any page guard
\* is acquired: no page is mutated, no page is allocated and no notification
\* is posted.
C19_IllTypedInsert ==
    [][(db = "open" /\ ops' = ops + 1 /\ last'.kind = "Insert" /\ last'.values = IllTyped) =>
         /\ last'.result = "Err"
         /\ last'.log = <<"next:err">>
         /\ db' = "open"
         /\ cache' = cache
         /\ file' = file
         /\ queue' = queue
         /\ live' = live]_vars

\* The ill-typed insert failed on a table that holds a row.
C19_Witness ==
    /\ last.kind = "Insert" /\ last.values = IllTyped /\ last.result = "Err"
    /\ live # EmptyBag
    /\ HeaderCount(cache) > FIRST_SCHEMA_PAGE_ID


\* C20: a TableDelete or TableUpdate whose predicate matches no live row
\* reaches end-of-stream without error, never invokes the per-item callback,
\* mutates no page and posts no write notification (the file receives only
\* what was queued before the query).
C20_NoMatchNoEffect ==
    [][(/\ db = "open" /\ ops' = ops + 1
        /\ last'.kind \in {"Delete", "Update"}
        /\ liveKnown
        /\ \A x \in BagToSet(live) : ~Pred(last'.pred, x)) =>
         /\ last'.result = "OkOk"
         /\ last'.log = <<"next:none">>
         /\ last'.yielded = <<>>
         /\ last'.events = <<>>
         /\ db' = "open"
         /\ cache' = cache
         /\ queue' = <<>>
         /\ file' = FlushAll(Store, pageSize).s.file
         /\ live' = live]_vars

\* A delete or update found no row to act on in a table that holds a row.
C20_Witness ==
    /\ last.kind \in {"Delete", "Update"}
    /\ last.result = "OkOk"
    /\ last.events = <<>>
    /\ liveKnown
    /\ live # EmptyBag
    /\ \A x \in BagToSet(live) : ~Pred(last.pred, x)


\* C21: after any sequence of ObjectCreate executions, Object::find(name)
\* returns the first created object whose name is name, and an error (no
\* panic) when no such object exists, also when the catalog spans several
\* pages.
C21_FindFirstCreated ==
    [][(db = "open" /\ finds' = finds + 1) =>
         LET named == {k \in DOMAIN created : created[k].name = table'.name}
         IN /\ db' = "open"
            /\ table'.name \in ObjectNames
            /\ table'.found <=> named # {}
            /\ table'.found =>
                 \A k \in named :
                    (\A j \in named : k <= j) =>
                       /\ table'.ty = created[k].ty
                       /\ table'.page_id = created[k].page_id]_vars

\* C22: every schematized values map has exactly the schema's column names
\* as its keys, and every value has the type its column declares.
C22_SchematizedKeys ==
    rec.page_id # NoPage =>
        /\ DOMAIN rec.data = {TestSchema[k].name : k \in DOMAIN TestSchema}
        /\ \A k \in DOMAIN TestSchema : rec.data[TestSchema[k].name].ty = TestSchema[k].ty

\* C23: every cached heap page, a sequence root or a sequence node, is
\* what deserialize gives back from its serialization: the same header
\* fields and a record region of the same length.
C23_HeapRoundTrip ==
    \A id \in DOMAIN cache :
       (cache[id].ty = "Heap" /\ SerializeFits(cache[id], pageSize)) =>
          LET d == Deserialize(Serialize(cache[id], pageSize))
          IN d.st = "ok" /\ d.page = cache[id]

\* C24: once flush_all has drained the queue and returned, with no
\* operation running, the file is page_count pages long for the page_count
\* of the cached header, the header on disk carries that page_count, and
\* every page id up to it reads as a complete page.
C24_FlushedFile ==
    [][(db = "open" /\ db' = "open" /\ queue' = <<>> /\ (queue # <<>> \/ file' # file)) =>
         /\ Len(file') = HeaderCount(cache') * pageSize'
         /\ LET OnDisk(r) == r.st = "ok" /\ Deserialize(r.buf).st = "ok"
                             /\ Deserialize(r.buf).page = cache'[1]
            IN OnDisk(read_page(file', 1, pageSize'))
         /\ \A id \in 1..HeaderCount(cache') : read_page(file', id, pageSize').st = "ok"]_vars

\* C25: when a TableInsert or an ObjectCreate allocates a new page, the
\* page that was the sequence's last page before it, the root or a later
\* page, gets the new page's id as its next_page_id, the root's sequence
\* last_page_id becomes the new id and its page_count grows by one.
C25_NewPageLinked ==
    [][LET root == IF last'.kind = "Insert" THEN table.page_id ELSE FIRST_SCHEMA_PAGE_ID
           new == HeaderCount(cache')
       IN (/\ db = "open" /\ ops' = ops + 1
           /\ last'.kind \in {"Insert", "Create"} /\ last'.result = "OkOk"
           /\ new = HeaderCount(cache) + 1
           /\ root \in DOMAIN cache) =>
              /\ cache'[cache[root].seq.last_page_id].next_page_id = new
              /\ cache'[root].seq.last_page_id = new
              /\ cache'[root].seq.page_count = cache[root].seq.page_count + 1]_vars

\* C26: while Db::execute drives a query, no step that yields an item runs
\* flush_all: nothing reaches the file before the iterator has returned
\* end-of-stream, a TableUpdate that relocates a row included.
C26_NoFlushBeforeEnd ==
    \A k \in DOMAIN last.events : ~last.events[k].wrote

\* C27: a task inside the Insert that Update::next runs to relocate a row
\* holds no latch when that Insert starts, and at no point asks for a latch
\* it holds itself, whatever the page of the relocated record is.
C27_NoSelfDeadlock ==
    \A t \in Tasks :
       (tasks[t].pc \in {"i_root", "i_last", "i_write", "f_take", "f_loop"}
        /\ tasks[t].op = "Update") =>
          /\ tasks[t].pc = "i_root" => \A id \in DOMAIN latch : latch[id] # t
          /\ Wants(t) # -1 => Holder(Wants(t)) # t

\* An update that relocated a row of the sequence's root and a row of a
\* later page has run to its end.
C27_Witness ==
    \E t \in Tasks :
       /\ tasks[t].pc = "done" /\ tasks[t].op = "Update"
       /\ table.page_id \in tasks[t].relocated
       /\ tasks[t].relocated # {table.page_id}

\* C28: two TableInserts that run concurrently on one table each hold the
\* root's write latch whenever they hold a latch of a page; they are never
\* both blocked, none fails, and once both are done the sequence's record
\* count has grown by two and a select yields each of the two rows exactly
\* once.
C28_ConcurrentInserts ==
    LET root == table.page_id
        ended == {"done", "failed", "panicked"}
        Once(r, row) ==
            /\ r.result = "OkOk"
            /\ Cardinality({k \in DOMAIN r.acc.yielded : r.acc.yielded[k] = row}) = 1
        Selected(r) == \A t \in Tasks : Once(r, tasks[t].values)
    IN (\A t \in Tasks : tasks[t].pc # "idle" /\ tasks[t].op = "Insert") =>
          /\ \A id \in DOMAIN latch : id # 0 => Holder(root) = latch[id]
          /\ (\E t \in Tasks : tasks[t].pc \notin ended) =>
                \E t \in Tasks : /\ tasks[t].pc \notin ended
                                 /\ Wants(t) # -1 => Holder(Wants(t)) = 0
          /\ \A t \in Tasks : tasks[t].pc \notin {"failed", "panicked"}
          /\ (\A t \in Tasks : tasks[t].pc = "done") =>
                /\ cache[root].seq.record_count = ops + 2
                /\ Selected(ExecLoop(Store,
                                     NewQuery("Select", table, <<>>, IndexObject, {},
                                              TextV(<<>>)),
                                     0, [log |-> <<>>, yielded |-> <<>>, events |-> <<>>],
                                     pageSize))

\* C29: when a caller's flush_all returns Ok, no other task running, the
\* queue is empty, every page that had a write notification pending is in
\* the file as the cache holds it, and the pages that had none, read
\* notifications or not, are in the file as they were.
C29_FlushAllDrains ==
    [][(/\ db = "open" /\ db' = "open" /\ queue # <<>> /\ cache' = cache
        /\ ops' = ops /\ reads' = reads /\ finds' = finds /\ sessions' = sessions) =>
          /\ queue' = <<>>
          /\ Len(file') = Len(file)
          /\ \A id \in DOMAIN cache :
                IF \E k \in DOMAIN queue : queue[k] = <<id, "Write">>
                THEN /\ read_page(file', id, pageSize).st = "ok"
                     /\ read_page(file', id, pageSize).buf = Serialize(cache[id], pageSize)
                ELSE read_page(file', id, pageSize) = read_page(file, id, pageSize)]_vars

\* A caller's flush_all has drained a queue that held write notifications
\* and the read notifications of a page that had no write pending.
C29_Witness ==
    /\ db = "open" /\ queue = <<>>
    /\ \E k \in DOMAIN last.queueAfter : last.queueAfter[k][2] = "Write"
    /\ \E k \in DOMAIN last.queueAfter :
          /\ last.queueAfter[k][2] = "Read"
          /\ \A j \in DOMAIN last.queueAfter :
                last.queueAfter[j][1] = last.queueAfter[k][1] => last.queueAfter[j][2] = "Read"

\* C30: a turn of flush_all's loop that finds the notified page gone from
\* the cache does not panic, and when the notification is a write the page
\* is in the file afterwards as one of its slots holds it.
C30_FlushAfterEviction ==
    [][(/\ pager = "live" /\ queue # <<>> /\ queue' = Tail(queue)
        /\ Head(queue)[1] \notin DOMAIN moka) =>
          /\ pager' = "live"
          /\ Head(queue)[2] = "Write" =>
                \E k \in DOMAIN slots :
                   /\ (IF slots[k].page.ty = "First" THEN 1 ELSE slots[k].page.id)
                         = Head(queue)[1]
                   /\ read_page(file', Head(queue)[1], pageSize).buf
                         = Serialize(slots[k].page, pageSize)]_vars

\* C31: a change made through a write view that was dropped without
\* flush() is lost: the page a later view of that page id gets does not
\* carry it, and the file does not hold it.
C31_DroppedMutationLost ==
    \A id \in DOMAIN unflushed :
       /\ id \in DOMAIN moka => slots[moka[id]].page # unflushed[id]
       /\ read_page(file, id, pageSize).buf # Serialize(unflushed[id], pageSize)

\* C32: every read view that is acquired posts one read notification
\* before it is dropped; for Db::open_with_page_size over an existing file,
\* the queue of the Db it returns holds as many read notifications as
\* boot_first_page took read views.
C32_ReadViewsReleased ==
    [][(db = "closed" /\ sessions' = sessions + 1 /\ openResult' = "existing") =>
          Cardinality({k \in DOMAIN queue' : queue'[k][2] = "Read"})
             = boot_first_page(file, pageSize').reads]_vars

\* C33: insert_new never replaces a slot the cache holds: in every step,
\* a key that stays in the cache keeps its slot, also when two insert_new
\* calls for one key run at the same time.
C33_InsertNewNeverReplaces ==
    [][\A key \in DOMAIN moka : key \in DOMAIN moka' => moka'[key] = moka[key]]_vars

\* The number of records LinearScan::next yields from scan state `state`
\* of the caller's table until it ends or fails.
RECURSIVE Remaining(_, _)
Remaining(s, state) ==
    LET Scanned(n) ==
            IF n.st # "ok" \/ ~n.some THEN 0 ELSE 1 + Remaining(n.s, n.state)
    IN Scanned(ScanNext(s, state, table.page_id, "row", table.schema, pageSize))

\* Peek at scan state `state` of the caller's table, and at every state
\* the scan goes through after it: peek gives what next gives, a second
\* peek gives the same record and leaves the state alone, and neither
\* rem_total nor the number of records still to come changes.
RECURSIVE PeekStable(_, _)
PeekStable(s, state) ==
    LET Twice(p, n, pp) ==
            /\ pp.st = "ok" /\ pp.some = p.some
            /\ pp.state = p.state
            /\ p.some => pp.record = p.record
        Both(p, n) ==
            /\ p.st = n.st
            /\ p.st = "ok" =>
                  /\ p.some = n.some
                  /\ state.init => p.state.rem_total = state.rem_total
                  /\ Remaining(p.s, p.state) = Remaining(s, state)
                  /\ Twice(p, n, Peek(p.s, p.state, table.page_id, "row", table.schema,
                                      pageSize))
                  /\ p.some => /\ n.record = p.record
                               /\ n.state.rem_total = p.state.rem_total - 1
                               /\ PeekStable(n.s, n.state)
    IN Both(Peek(s, state, table.page_id, "row", table.schema, pageSize),
            ScanNext(s, state, table.page_id, "row", table.schema, pageSize))

\* C34: peek on a linear scan returns the record the next call to next
\* returns and consumes nothing: consecutive peeks return the same record,
\* rem_total and the records still to be yielded are unchanged, and peek
\* ends exactly when next does.
C34_PeekDoesNotConsume ==
    (db = "open" /\ table.found /\ table.page_id \in DOMAIN cache) =>
        PeekStable(Store, NoState)

\* A table whose records lie on more than one page, so that peek moves to
\* the next page of the sequence.
C34_Witness ==
    /\ db = "open" /\ table.found /\ table.page_id \in DOMAIN cache
    /\ cache[table.page_id].seq.record_count >= 2
    /\ cache[table.page_id].record_count < cache[table.page_id].seq.record_count
    /\ Remaining(Store, NoState) >= 2

\* C35: a TableDelete changes only the tombstone flag of the records it
\* matched: every heap page is afterwards what it was, header counters
\* included, but for the flag byte (the third byte of the record) of each
\* matched record.
C35_DeleteFrame ==
    [][(db = "open" /\ ops' = ops + 1 /\ last'.kind = "Delete") =>
          \A id \in DOMAIN cache \cap DOMAIN cache' :
             cache[id].ty = "Heap" =>
                LET flags == {last'.events[k].old.offset + 3 :
                                 k \in {j \in DOMAIN last'.events :
                                           last'.events[j].old.page_id = id}}
                IN cache'[id] = [cache[id] EXCEPT
                                    !.bytes = [k \in DOMAIN @ |->
                                                  IF k \in flags THEN 1 ELSE @[k]]]]_vars

\* A delete that matched a record on a page that holds another record.
C35_Witness ==
    /\ db = "open" /\ last.kind = "Delete" /\ last.result = "OkOk"
    /\ \E k \in DOMAIN last.events :
          /\ last.events[k].old.page_id \in DOMAIN cache
          /\ cache[last.events[k].old.page_id].record_count >= 2
          /\ cache[last.events[k].old.page_id].bytes[last.events[k].old.offset + 3] = 1

\* The offset past n records that start at off in region b, each as long
\* as its total_size says (-1: a record starts past the end of the region).
RECURSIVE EndOfRecords(_, _, _)
EndOfRecords(b, off, n) ==
    IF n = 0 THEN off
    ELSE IF off + 2 > Len(b) THEN -1
    ELSE EndOfRecords(b, off + RdU16(b, off), n - 1)

\* C36: for every heap page, free_offset is at most the length of the
\* record region, equals the sum of the total_size of the page's
\* record_count records, and the region is zero from free_offset on.
C36_FreeOffset ==
    \A id \in DOMAIN cache :
       cache[id].ty = "Heap" =>
          /\ cache[id].free_offset <= Len(cache[id].bytes)
          /\ EndOfRecords(cache[id].bytes, 0, cache[id].record_count) = cache[id].free_offset
          /\ \A k \in (cache[id].free_offset + 1)..Len(cache[id].bytes) :
                cache[id].bytes[k] = 0

\* C37: an update or delete that rewrote its records in place wrote only
\* inside [offset, offset + total_size) of each of them: every other byte
\* of every heap page, and so every other record, is what it was.
C37_RewriteInsideRecord ==
    [][(/\ db = "open" /\ ops' = ops + 1 /\ last'.kind \in {"Update", "Delete"}
        /\ \A k \in DOMAIN last'.events : last'.events[k].kind \in {"inplace", "delete"}) =>
          \A id \in DOMAIN cache \cap DOMAIN cache' :
             cache[id].ty = "Heap" =>
                \A j \in DOMAIN cache[id].bytes :
                   (\A k \in DOMAIN last'.events :
                       ~(/\ last'.events[k].old.page_id = id
                         /\ last'.events[k].old.offset < j
                         /\ j <= last'.events[k].old.offset
                                    + last'.events[k].old.total_size)) =>
                      cache'[id].bytes[j] = cache[id].bytes[j]]_vars

\* C38: a TableUpdate over a sequence of N records ends without a panic
\* after at most N updater calls, and calls the updater at most once for
\* each row: no two of its steps rewrite the record at one place, and no
\* step rewrites the copy an earlier step of the same update relocated to
\* the tail.
C38_UpdateOncePerRow ==
    [][(db = "open" /\ ops' = ops + 1 /\ last'.kind = "Update"
        /\ table.page_id \in DOMAIN cache) =>
          LET ev == last'.events
              At(r) == <<r.page_id, r.offset>>
          IN /\ last'.result # "Panic"
             /\ Len(ev) <= cache[table.page_id].seq.record_count
             /\ \A j, k \in DOMAIN ev :
                   j < k =>
                      /\ At(ev[j].old) # At(ev[k].old)
                      /\ (ev[j].kind = "reloc" /\ ev[j].tail.st = "ok") =>
                            At(ev[j].tail.record) # At(ev[k].old)]_vars

\* A task that runs a query and has not ended.
Unfinished(t) == tasks[t].pc \notin {"idle", "done", "failed", "panicked"}

\* Task t waits for a latch or for the queue's mutex that it cannot get.
Blocked(t) ==
    LET pc == tasks[t].pc
    IN CASE pc \in WritePcs -> Wants(t) # -1 /\ ~Free(Wants(t))
         [] pc \in {"f_take", "f_loop"} -> Wants(t) # -1 /\ Holder(Wants(t)) # 0
         [] pc \in {"s_init", "s_peek", "s_move"} -> ~CanRead(t, Wants(t))
         [] OTHER -> FALSE

\* C39: no interleaving of the tasks that run queries on one Db reaches a
\* state where every task that has not ended waits for a page latch or for
\* the mutex of the notification queue.
C39_NoDeadlock ==
    (\E t \in Tasks : Unfinished(t)) => \E t \in Tasks : Unfinished(t) /\ ~Blocked(t)

\* C40: a TableSelect that runs next to TableInserts does not panic,
\* yields only rows that were inserted whole, yields no row more often
\* than it was inserted, and by its end has yielded every row whose insert
\* completed before the select's first next.
C40_ConcurrentSelect ==
    \A t \in Tasks :
       (tasks[t].op = "Select" /\ \E u \in Tasks : tasks[u].op = "Insert") =>
          LET inserted == live (+) SetToBag({tasks[u].values :
                                               u \in {w \in Tasks : tasks[w].op = "Insert"}})
              yielded == SeqToBag(tasks[t].yielded)
          IN /\ tasks[t].pc # "panicked"
             /\ \A row \in BagToSet(yielded) :
                   /\ BagIn(row, inserted)
                   /\ CopiesIn(row, yielded) <= CopiesIn(row, inserted)
             /\ tasks[t].pc = "done" => tasks[t].before \sqsubseteq yielded

====
